---- MODULE Spec2Model ----
(***************************************************************************)
(* Model of the multiai streaming front end: the CircuitBreaker, the       *)
(* RetryPolicy, streamChatCompletion (fetch + SSE read loop), the          *)
(* StreamingClient (stream / attemptStream / abort / abortAll) and the     *)
(* useStreamingChat hook (streamToModels / abort).                         *)
(*                                                                         *)
(* JavaScript runs each callback to completion: the variable cur names the *)
(* attempt whose parser.feed() is running, and while it is set only that   *)
(* feed (and code called from a caller callback) can take a step.          *)
(***************************************************************************)
EXTENDS Integers, Sequences, FiniteSets, Bags, TLC

\* ---------------------------------------------------------------- bounds
MaxReqs == 2        \* stream() calls over the whole run
MaxEvents == 2      \* SSE events the upstreams send over the whole run
MaxFaults == 2      \* network and HTTP failures over the whole run
MaxFailures == 3    \* failures an outside caller records per model
MaxTime == 3        \* last value of the clock
MaxAttemptNumber == 3  \* attempt numbers given to shouldRetry and getDelay
RandomSteps == 4    \* Math.random() takes the values 0/4 .. 3/4
MaxWireEvents == 2  \* events of one SSE stream given to the parser
MaxBatchSize == 3   \* batchSize of a TelemetryLogger is 1 .. MaxBatchSize
MaxLogged == 4      \* events logged to one TelemetryLogger
MaxCost == 2        \* cost of one call, in units
MaxRecords == 4     \* record() calls on one ledger
MaxDay == 3         \* days the ledger is looked at
DaysPerMonth == 2   \* days of a month
MaxClock == 8       \* readings of performance.now()
MaxInputs == 6      \* inputs given to a pair of clients

\* ------------------------------------------------------ program constants
failureThreshold == 2     \* CircuitBreaker option (default 5)
resetTimeMs == 1          \* CircuitBreaker option (default 60000), in ticks
maxAttempts == 2          \* RetryPolicy option (default 3)
Null == 0                 \* openedAt: null (falsy, like the timestamp 0)
dailyCap == 3         \* spending.daily_cap, in units
monthlyCap == 4       \* spending.monthly_cap, in units

Models == {"a", "b"}
Chunks == {"x"}
Statuses == {400, 429, 500}

VARIABLES
  now,               \* Date.now()
  cb,                \* CircuitBreaker.state: Map model -> {failures, openedAt}
  req,               \* one record per stream() call, indexed by request id
  activeRequests,    \* StreamingClient.activeRequests (ids with a controller)
  responses,         \* hook signal: Map model id -> {loading, content, error}
  isStreaming,       \* hook signal
  activeRequestIds,  \* hook's Set of request ids
  fan,               \* one record per streamToModels call
  cur,               \* <<r>> while an attempt of request r is inside feed()
  cbFired,           \* the event just fed invoked a caller callback
  evLeft,            \* SSE events the upstreams may still send
  faultsLeft,        \* failures the network and the upstreams may still cause
  probe,             \* one call of a pure function: its inputs and its result
  reqsLeft           \* stream() calls the user may still start

vars == <<now, cb, req, activeRequests, responses, isStreaming,
          activeRequestIds, fan, cur, cbFired, evLeft, faultsLeft, probe,
          reqsLeft>>

\* ---------------------------------------------------------- CircuitBreaker
Has(c, model) == model \in DOMAIN c

failuresOf(c, model) == IF Has(c, model) THEN c[model].failures ELSE 0

openedAtOf(c, model) == IF Has(c, model) THEN c[model].openedAt ELSE Null

\* isOpen with the reset check relaxed to >=: the circuit would stop blocking
\* at exactly resetTimeMs after openedAt instead of only after it
isOpen_ResetAtEqual(c, model, t) ==
  IF ~Has(c, model) \/ c[model].failures < failureThreshold THEN FALSE
  ELSE IF t - c[model].openedAt >= resetTimeMs THEN FALSE
  ELSE TRUE

isOpen(c, model, t) ==
  IF ~Has(c, model) \/ c[model].failures < failureThreshold THEN FALSE
  ELSE IF t - c[model].openedAt > resetTimeMs THEN FALSE
  ELSE TRUE

\* recordSuccess that resets the counters but keeps the entry
recordSuccess_ResetOnly(c, model) ==
  [m \in DOMAIN c |->
     IF m = model THEN [failures |-> 0, openedAt |-> Null] ELSE c[m]]

\* recordSuccess as this.state.clear(): every model forgotten
recordSuccess_ClearAll(c, model) == [m \in {} |-> c[m]]

recordSuccess(c, model) == [m \in DOMAIN c \ {model} |-> c[m]]

\* recordFailure that stamps openedAt one failure late (> instead of >=)
recordFailure_LateOpen(c, model, t) ==
  LET old == IF Has(c, model) THEN c[model]
             ELSE [failures |-> 0, openedAt |-> Null]
      f == old.failures + 1
      o == IF f > failureThreshold /\ old.openedAt = Null THEN t
           ELSE old.openedAt
  IN [m \in DOMAIN c \cup {model} |->
        IF m = model THEN [failures |-> f, openedAt |-> o] ELSE c[m]]

recordFailure(c, model, t) ==
  LET old == IF Has(c, model) THEN c[model]
             ELSE [failures |-> 0, openedAt |-> Null]
      f == old.failures + 1
      o == IF f >= failureThreshold /\ old.openedAt = Null THEN t
           ELSE old.openedAt
  IN [m \in DOMAIN c \cup {model} |->
        IF m = model THEN [failures |-> f, openedAt |-> o] ELSE c[m]]

resetTime(c, model) ==
  IF ~Has(c, model) \/ c[model].openedAt = Null THEN Null
  ELSE c[model].openedAt + resetTimeMs

getState(c, model, t) ==
  IF ~Has(c, model) \/ c[model].failures < failureThreshold THEN "closed"
  ELSE IF t - c[model].openedAt > resetTimeMs THEN "half-open"
  ELSE "open"

\* -------------------------------------------------------------- errors
\* An error value as attemptStream's onError sees it.  isRetryable is
\* "true", "false" or "unset" (no boolean property); status 0 is undefined.
StringError(msg) ==
  [kind |-> "string", message |-> msg, isRetryable |-> "unset",
   isNetworkError |-> FALSE, isRateLimited |-> FALSE, status |-> 0]

\* SSE error payload without a message: parseSSEChunk hands the object on.
ObjectError(rateLimited) ==
  [kind |-> "object", message |-> "undefined", isRetryable |-> "unset",
   isNetworkError |-> FALSE, isRateLimited |-> rateLimited, status |-> 0]

CircuitOpenError(model) ==
  [kind |-> "CircuitOpenError", message |-> "Circuit open",
   isRetryable |-> "false", isNetworkError |-> FALSE,
   isRateLimited |-> FALSE, status |-> 0]

\* new Error(error) with isRetryable = true
WrapError(error) ==
  IF error.kind = "string"
  THEN [error EXCEPT !.kind = "Error", !.isRetryable = "true"]
  ELSE error

\* ---------------------------------------------------------- RetryPolicy
\* shouldRetry with the attempt limit off by one (> instead of >=)
shouldRetry_OffByOne(error, attemptNumber) ==
  IF attemptNumber > maxAttempts THEN FALSE
  ELSE IF error.isRetryable # "unset" THEN error.isRetryable = "true"
  ELSE IF error.isNetworkError THEN TRUE
  ELSE IF error.status >= 500 \/ error.status = 429 THEN TRUE
  ELSE FALSE

shouldRetry(error, attemptNumber) ==
  IF attemptNumber >= maxAttempts THEN FALSE
  ELSE IF error.isRetryable # "unset" THEN error.isRetryable = "true"
  ELSE IF error.isNetworkError THEN TRUE
  ELSE IF error.status >= 500 \/ error.status = 429 THEN TRUE
  ELSE FALSE

Min(a, b) == IF a < b THEN a ELSE b

RECURSIVE Pow2(_)
Pow2(n) == IF n <= 0 THEN 1 ELSE 2 * Pow2(n - 1)

\* getDelay of a policy with the given baseDelayMs and maxDelayMs.  rnd is
\* the value of Math.random() in steps of 1/RandomSteps (0 <= rnd <
\* RandomSteps); the configured delays are multiples of 10 * RandomSteps, so
\* the 30% jitter is computed exactly.
getDelay_NoCap(baseDelayMs, maxDelayMs, attemptNumber, rnd) ==
  LET exponential == baseDelayMs * Pow2(attemptNumber - 1)
      jitterRange == (3 * exponential) \div 10
      jitter == ((rnd * 2 - RandomSteps) * jitterRange) \div RandomSteps
  IN exponential + jitter

getDelay(baseDelayMs, maxDelayMs, attemptNumber, rnd) ==
  LET exponential == baseDelayMs * Pow2(attemptNumber - 1)
      jitterRange == (3 * exponential) \div 10
      jitter == ((rnd * 2 - RandomSteps) * jitterRange) \div RandomSteps
      delay == exponential + jitter
  IN Min(delay, maxDelayMs)

\* ------------------------------------------------------------ the state
NoError ==
  [kind |-> "none", message |-> "", isRetryable |-> "unset",
   isNetworkError |-> FALSE, isRateLimited |-> FALSE, status |-> 0]

\* One stream() call.  insts is the bag of its running streamChatCompletion
\* calls, sleeping the bag of attempt numbers whose backoff sleep is pending.
\* The fields from nComplete on record what the caller has observed.
NewRequest(model) ==
  [model |-> model, aborted |-> FALSE, insts |-> EmptyBag, sleeping |-> EmptyBag,
   returned |-> FALSE, rejected |-> FALSE,
   settled |-> "pending", resContent |-> <<>>, resError |-> "",
   nComplete |-> 0, nError |-> 0, lastError |-> NoError, late |-> FALSE,
   delivered |-> <<>>, attempts |-> 0, sleeps |-> 0, nLogSuccess |-> 0,
   nLogError |-> 0]

\* One streamChatCompletion call (attempt number n).
NewAttempt(n) ==
  [n |-> n, pc |-> "fetch",
   completed |-> FALSE, fullContent |-> <<>>]

\* The mutable program state a callback chain works on.
Bundle ==
  [req |-> req, cb |-> cb, responses |-> responses,
   activeRequests |-> activeRequests, activeRequestIds |-> activeRequestIds]

Commit(s) ==
  /\ req' = s.req
  /\ cb' = s.cb
  /\ responses' = s.responses
  /\ activeRequests' = s.activeRequests
  /\ activeRequestIds' = s.activeRequestIds

One(x) == SetToBag({x})

SetInst(s, r, old, inst) == [s EXCEPT !.req[r].insts = (@ (-) One(old)) (+) One(inst)]

DropInst(s, r, old) == [s EXCEPT !.req[r].insts = @ (-) One(old)]

\* ------------------------------------------- useStreamingChat callbacks
PutResponse(resp, m, rec) ==
  [k \in DOMAIN resp \cup {m} |-> IF k = m THEN rec ELSE resp[k]]

\* {...prev[model.id]} when the map has no record for the model
SpreadOf(resp, m) ==
  IF m \in DOMAIN resp THEN resp[m]
  ELSE [loading |-> TRUE, content |-> <<"undefined">>, error |-> "undefined"]

\* prev[model.id].content throws a TypeError when the record is missing
hookOnChunkThrows(s, r) == s.req[r].model \notin DOMAIN s.responses

hookOnChunk(s, r, chunk) ==
  LET m == s.req[r].model
      prev == s.responses[m]
  IN [s EXCEPT !.responses =
        PutResponse(@, m, [prev EXCEPT !.content = Append(@, chunk)])]

\* resolve(...) of the per-model promise: only the first call settles it
Settle(s, r, outcome, content, error) ==
  IF s.req[r].settled # "pending" THEN s
  ELSE [s EXCEPT !.req[r].settled = outcome,
                 !.req[r].resContent = content,
                 !.req[r].resError = error]

hookOnComplete(s, r, content) ==
  LET m == s.req[r].model
      prev == SpreadOf(s.responses, m)
      s1 == [s EXCEPT !.activeRequestIds = @ \ {r},
                      !.responses = PutResponse(@, m, [prev EXCEPT !.loading = FALSE])]
  IN Settle(s1, r, "ok", content, "")

\* error.message || error
ErrorMessage(error) == IF error.kind = "object" THEN "[object]" ELSE error.message

hookOnError(s, r, error) ==
  LET m == s.req[r].model
      prev == SpreadOf(s.responses, m)
      msg == ErrorMessage(error)
      s1 == [s EXCEPT !.activeRequestIds = @ \ {r},
                      !.responses = PutResponse(@, m,
                          [prev EXCEPT !.loading = FALSE, !.error = msg])]
  IN Settle(s1, r, "err", <<>>, msg)

\* The caller's callbacks as stream() receives them, with the observation
\* of each invocation recorded in the request.
callerOnChunk(s, r, chunk) ==
  hookOnChunk([s EXCEPT !.req[r].delivered = Append(@, chunk),
                        !.req[r].late = @ \/ s.req[r].aborted], r, chunk)

callerOnComplete(s, r, content) ==
  hookOnComplete([s EXCEPT !.req[r].nComplete = @ + 1,
                           !.req[r].late = @ \/ s.req[r].aborted], r, content)

callerOnError(s, r, error) ==
  hookOnError([s EXCEPT !.req[r].nError = @ + 1,
                        !.req[r].lastError = error], r, error)

\* ------------------------------------------- StreamingClient.attemptStream
\* resolve() of an attempt's promise.  The promise of attempt 1 resolves with
\* the first resolve() of any attempt of the call (each retry resolves its
\* parent), and stream()'s finally then deletes the request id.
\* resolve() with a stream() that has no finally block
Resolve_KeepsId(s, r) == [s EXCEPT !.req[r].returned = TRUE]

Resolve(s, r) ==
  [s EXCEPT !.req[r].returned = TRUE, !.activeRequests = @ \ {r}]

wrapOnChunkDelivers(s, r) == ~s.req[r].aborted

\* nLogSuccess counts the streaming_success events logged for the call
wrapOnComplete(s, r, content) ==
  LET s1 == [s EXCEPT !.cb = recordSuccess(@, s.req[r].model),
                      !.req[r].nLogSuccess = @ + 1]
  IN Resolve(callerOnComplete(s1, r, content), r)

\* the part of onError up to its first await (or to its end); nLogError
\* counts the streaming_error events logged for the call
wrapOnError(s, r, attemptNumber, error, t) ==
  LET lastError == WrapError(error)
      s0 == [s EXCEPT !.req[r].nLogError = @ + 1]
  IN IF shouldRetry(lastError, attemptNumber)
     THEN [s0 EXCEPT !.req[r].sleeping = @ (+) One(attemptNumber),
                     !.req[r].sleeps = @ + 1]
     ELSE LET s1 == IF lastError.isRateLimited
                    THEN [s0 EXCEPT !.cb = recordFailure(@, s.req[r].model, t)]
                    ELSE s0
          IN Resolve(callerOnError(s1, r, lastError), r)

\* attemptStream up to streamChatCompletion's await fetch(...)
startAttempt(s, r, attemptNumber) ==
  [s EXCEPT !.req[r].insts = @ (+) One(NewAttempt(attemptNumber)),
            !.req[r].attempts = @ + 1]

\* ------------------------------------------------- StreamingClient.stream
\* stream with the request registered before the circuit is consulted
stream_RegistersFirst(s, model, t) ==
  LET r == Len(s.req) + 1
      s0 == [s EXCEPT !.req = Append(@, NewRequest(model)),
                      !.activeRequestIds = @ \cup {r},
                      !.activeRequests = @ \cup {r}]
  IN IF isOpen(s0.cb, model, t)
     THEN callerOnError([s0 EXCEPT !.req[r].rejected = TRUE,
                                   !.req[r].nLogError = @ + 1], r,
                        CircuitOpenError(model))
     ELSE startAttempt(s0, r, 1)

\* stream() up to its first await, for a fresh request id r = Len(s.req)+1
stream(s, model, t) ==
  LET r == Len(s.req) + 1
      s0 == [s EXCEPT !.req = Append(@, NewRequest(model)),
                      !.activeRequestIds = @ \cup {r}]
  IN IF isOpen(s0.cb, model, t)
     THEN callerOnError([s0 EXCEPT !.req[r].rejected = TRUE,
                                   !.req[r].nLogError = @ + 1], r,
                        CircuitOpenError(model))
     ELSE startAttempt([s0 EXCEPT !.activeRequests = @ \cup {r}], r, 1)

\* ------------------------------------------------------------- inputs
NoEvent == [type |-> "none", content |-> "", error |-> NoError]

\* What one SSE event is to createSSEParser: a content delta, [DONE], an
\* error payload with a message string, or an error payload without one.
Events ==
  {[NoEvent EXCEPT !.type = "chunk", !.content = c] : c \in Chunks}
  \cup {[NoEvent EXCEPT !.type = "done"]}
  \cup {[NoEvent EXCEPT !.type = "error", !.error = StringError("sse")]}
  \cup {[NoEvent EXCEPT !.type = "error", !.error = ObjectError(rl)] : rl \in BOOLEAN}

Range(seq) == {seq[k] : k \in DOMAIN seq}

\* model selections of a comparison: non-empty, no model twice
Selections ==
  {sel \in UNION {[1..k -> Models] : k \in 1..Cardinality(Models)} :
     \A j, k \in DOMAIN sel : j # k => sel[j] # sel[k]}

\* --------------------------------------------------------------- Init
\* no pure function is being called on its own
NoProbe == [fn |-> "none"]

Init ==
  /\ now = 1
  /\ cb = <<>>
  /\ req = <<>>
  /\ activeRequests = {}
  /\ responses = <<>>
  /\ isStreaming = FALSE
  /\ activeRequestIds = {}
  /\ fan = <<>>
  /\ cur = <<>>
  /\ cbFired = FALSE
  /\ evLeft = MaxEvents
  /\ faultsLeft = MaxFaults
  /\ probe = NoProbe
  /\ reqsLeft = MaxReqs

Idle == cur = <<>>

\* ------------------------------------------- useStreamingChat.streamToModels
RECURSIVE streamAll(_, _, _, _)
streamAll(s, sel, k, t) ==
  IF k > Len(sel) THEN s ELSE streamAll(stream(s, sel[k], t), sel, k + 1, t)

InitialResponses(sel) ==
  [m \in Range(sel) |-> [loading |-> TRUE, content |-> <<>>, error |-> "null"]]

\* sendMessage (guarded by isStreaming) -> streamToModels, up to its await
StreamToModels(sel) ==
  /\ Idle
  /\ ~isStreaming
  /\ Len(sel) <= reqsLeft
  /\ Commit(streamAll([Bundle EXCEPT !.responses = InitialResponses(sel)], sel, 1, now))
  /\ isStreaming' = TRUE
  /\ fan' = Append(fan, [rids |-> [k \in DOMAIN sel |-> Len(req) + k],
                         resolved |-> FALSE, latest |-> FALSE, snap |-> <<>>])
  /\ reqsLeft' = reqsLeft - Len(sel)
  /\ UNCHANGED <<probe, now, cur, cbFired, evLeft, faultsLeft>>

\* the continuation of await Promise.all(promises)
FanoutResolve(f) ==
  /\ Idle
  /\ f \in DOMAIN fan
  /\ ~fan[f].resolved
  /\ \A k \in DOMAIN fan[f].rids : req[fan[f].rids[k]].settled # "pending"
  /\ fan' = [fan EXCEPT ![f].resolved = TRUE, ![f].latest = (f = Len(fan)),
                         ![f].snap = responses]
  /\ isStreaming' = FALSE
  /\ UNCHANGED <<probe, reqsLeft, now, cb, req, activeRequests, responses, activeRequestIds, cur, cbFired, evLeft, faultsLeft>>

\* StreamingClient.abortAll
abortAll(s) ==
  [s EXCEPT !.req = [r \in DOMAIN s.req |->
                       IF r \in s.activeRequests
                       THEN [s.req[r] EXCEPT !.aborted = TRUE] ELSE s.req[r]],
            !.activeRequests = {}]

\* useStreamingChat.abort, from a UI task or from code a caller callback runs
Abort ==
  /\ Idle \/ cbFired
  /\ fan # <<>>
  /\ Commit([abortAll(Bundle) EXCEPT !.activeRequestIds = {}])
  /\ isStreaming' = FALSE
  /\ UNCHANGED <<probe, reqsLeft, now, fan, cur, cbFired, evLeft, faultsLeft>>

\* ------------------------------------------------ streamChatCompletion
IsInst(r, inst) == r \in DOMAIN req /\ inst \in BagToSet(req[r].insts)

\* the catch block: onError(error.message), then the function returns
catchError(s, r, inst, msg, t) ==
  wrapOnError(DropInst(s, r, inst), r, inst.n, StringError(msg), t)

\* await fetch(...) rejects: the signal is aborted, or the network failed
FetchReject(r, inst) ==
  /\ Idle /\ IsInst(r, inst) /\ inst.pc = "fetch"
  /\ req[r].aborted \/ faultsLeft > 0
  /\ Commit(catchError(Bundle, r, inst,
                       IF req[r].aborted THEN "aborted" ELSE "network", now))
  /\ faultsLeft' = IF req[r].aborted THEN faultsLeft ELSE faultsLeft - 1
  /\ UNCHANGED <<probe, reqsLeft, now, isStreaming, fan, cur, cbFired, evLeft>>

\* await fetch(...) resolves with a 2xx response: the read loop starts
FetchRespond(r, inst) ==
  /\ Idle /\ IsInst(r, inst) /\ inst.pc = "fetch"
  /\ ~req[r].aborted
  /\ Commit(SetInst(Bundle, r, inst, [inst EXCEPT !.pc = "read"]))
  /\ UNCHANGED <<probe, reqsLeft, now, isStreaming, fan, cur, cbFired, evLeft, faultsLeft>>

\* await fetch(...) resolves with a non-2xx response: errorData.error.message
\* (or 'Request failed') goes to onError; the status goes nowhere
FetchStatus(r, inst, status) ==
  /\ Idle /\ IsInst(r, inst) /\ inst.pc = "fetch"
  /\ ~req[r].aborted
  /\ status \in Statuses
  /\ faultsLeft > 0
  /\ Commit(catchError(Bundle, r, inst, "http", now))
  /\ faultsLeft' = faultsLeft - 1
  /\ UNCHANGED <<probe, reqsLeft, now, isStreaming, fan, cur, cbFired, evLeft>>

\* await reader.read() rejects: the signal is aborted, or the network failed
ReadReject(r, inst) ==
  /\ Idle /\ IsInst(r, inst) /\ inst.pc = "read"
  /\ req[r].aborted \/ faultsLeft > 0
  /\ Commit(catchError(Bundle, r, inst,
                       IF req[r].aborted THEN "aborted" ELSE "network", now))
  /\ faultsLeft' = IF req[r].aborted THEN faultsLeft ELSE faultsLeft - 1
  /\ UNCHANGED <<probe, reqsLeft, now, isStreaming, fan, cur, cbFired, evLeft>>

\* the test after the loop without the completed flag
closeCompletes_NoFlag(inst) == inst.fullContent # <<>>

\* if (!completed && fullContent)
closeCompletes(inst) == ~inst.completed /\ inst.fullContent # <<>>

\* reader.read() reports done: the loop ends, completion without [DONE]
ReadClose(r, inst) ==
  /\ Idle /\ IsInst(r, inst) /\ inst.pc = "read"
  /\ ~req[r].aborted
  /\ LET s1 == DropInst(Bundle, r, inst)
     IN Commit(IF closeCompletes(inst)
               THEN wrapOnComplete(s1, r, inst.fullContent)
               ELSE s1)
  /\ UNCHANGED <<probe, reqsLeft, now, isStreaming, fan, cur, cbFired, evLeft, faultsLeft>>

\* what the callbacks of createSSEParser do with one event of attempt inst;
\* inst1 is the attempt as the event leaves it when no callback changes it
feedEvent(s0, r, inst, inst1, e, t) ==
  CASE e.type = "chunk" ->
         LET s1 == SetInst(s0, r, inst,
                     [inst1 EXCEPT !.fullContent = Append(@, e.content)])
         IN IF ~wrapOnChunkDelivers(s1, r) THEN s1
            ELSE IF hookOnChunkThrows(s1, r)
            THEN catchError(s0, r, inst, "TypeError", t)
            ELSE callerOnChunk(s1, r, e.content)
    [] e.type = "done" ->
         IF inst.completed THEN SetInst(s0, r, inst, inst1)
         ELSE wrapOnComplete(
                SetInst(s0, r, inst, [inst1 EXCEPT !.completed = TRUE]),
                r, inst.fullContent)
    [] e.type = "error" ->
         wrapOnError(SetInst(s0, r, inst, inst1), r, inst.n, e.error, t)

\* parser.feed hands one event to the callbacks of createSSEParser; more
\* says whether the same network buffer holds a further event.
ReadEvent(r, inst, e, more) ==
  /\ IsInst(r, inst)
  /\ evLeft > 0
  /\ \/ Idle /\ inst.pc = "read" /\ ~req[r].aborted
     \/ cur = <<r>> /\ inst.pc = "feed"
  /\ more => evLeft > 1
  /\ LET inst1 == [inst EXCEPT !.pc = IF more THEN "feed" ELSE "read"]
         s0 == Bundle
         s2 == feedEvent(s0, r, inst, inst1, e, now)
         next == IF more THEN <<r>> ELSE <<>>
     IN /\ Commit(s2)
        /\ CASE e.type = "chunk" ->
                  IF ~wrapOnChunkDelivers(s0, r)
                  THEN cur' = next /\ cbFired' = FALSE
                  ELSE IF hookOnChunkThrows(s0, r)
                  THEN cur' = <<>> /\ cbFired' = FALSE
                  ELSE cur' = next /\ cbFired' = more
             [] e.type = "done" ->
                  IF inst.completed
                  THEN cur' = next /\ cbFired' = FALSE
                  ELSE cur' = next /\ cbFired' = more
             [] e.type = "error" ->
                  /\ cur' = next
                  /\ cbFired' = (more /\ s2.req[r].nError # req[r].nError)
  /\ evLeft' = evLeft - 1
  /\ UNCHANGED <<probe, reqsLeft, now, isStreaming, fan, faultsLeft>>

\* the retry dispatched after the sleep whatever the signal says
retriesAfterSleep_Always(s, r) == r \in DOMAIN s.req

\* if (!signal.aborted) after await sleep(delay)
retriesAfterSleep(s, r) == ~s.req[r].aborted

\* the backoff sleep after attempt n ends: next attempt unless aborted
Wake(r, n) ==
  /\ Idle
  /\ r \in DOMAIN req /\ n \in BagToSet(req[r].sleeping)
  /\ LET s1 == [Bundle EXCEPT !.req[r].sleeping = @ (-) One(n)]
     IN Commit(IF retriesAfterSleep(s1, r) THEN startAttempt(s1, r, n + 1)
               ELSE Resolve(s1, r))
  /\ UNCHANGED <<probe, reqsLeft, now, isStreaming, fan, cur, cbFired, evLeft, faultsLeft>>

\* The clock.  Only the circuit breaker reads it, and only as the time since
\* some openedAt, so it advances while a circuit is waiting out its reset.
Tick ==
  /\ Idle
  /\ now < MaxTime
  /\ \E m \in DOMAIN cb : cb[m].openedAt # Null /\ now - cb[m].openedAt <= resetTimeMs
  /\ now' = now + 1
  /\ UNCHANGED <<probe, reqsLeft, cb, req, activeRequests, responses, isStreaming,
                 activeRequestIds, fan, cur, cbFired, evLeft, faultsLeft>>

Next ==
  \/ \E sel \in Selections : StreamToModels(sel)
  \/ \E f \in DOMAIN fan : FanoutResolve(f)
  \/ Abort
  \/ \E r \in DOMAIN req : \E inst \in BagToSet(req[r].insts) :
       FetchReject(r, inst)
  \/ \E r \in DOMAIN req : \E inst \in BagToSet(req[r].insts) :
       FetchRespond(r, inst)
  \/ \E r \in DOMAIN req : \E inst \in BagToSet(req[r].insts) :
       \E status \in Statuses : FetchStatus(r, inst, status)
  \/ \E r \in DOMAIN req : \E inst \in BagToSet(req[r].insts) :
       ReadReject(r, inst)
  \/ \E r \in DOMAIN req : \E inst \in BagToSet(req[r].insts) :
       ReadClose(r, inst)
  \/ \E r \in DOMAIN req : \E inst \in BagToSet(req[r].insts) :
       \E e \in Events : \E more \in BOOLEAN : ReadEvent(r, inst, e, more)
  \/ \E r \in DOMAIN req : \E n \in BagToSet(req[r].sleeping) : Wake(r, n)
  \/ Tick

Spec == Init /\ [][Next]_vars

\* ------------------------------------------------ one call, looked at longer
\* A single stream() call whose upstreams may send one more event than in
\* Spec: enough for a retry that runs beside the response it retries.
InitDeep ==
  /\ now = 1
  /\ cb = <<>>
  /\ req = <<>>
  /\ activeRequests = {}
  /\ responses = <<>>
  /\ isStreaming = FALSE
  /\ activeRequestIds = {}
  /\ fan = <<>>
  /\ cur = <<>>
  /\ cbFired = FALSE
  /\ evLeft = MaxEvents + 1
  /\ faultsLeft = MaxFaults
  /\ probe = NoProbe
  /\ reqsLeft = 1

SpecDeep == InitDeep /\ [][Next]_vars

\* ------------------------------------- the client used without the hook
\* StreamingClient.abort(requestId)
abort(s, requestId) ==
  IF requestId \in s.activeRequests
  THEN [s EXCEPT !.req[requestId].aborted = TRUE,
                 !.activeRequests = @ \ {requestId}]
  ELSE s

\* a caller of the client aborts one request id, which may be one the client
\* does not know; probe records the call: the id, whether it was among the
\* active requests, and the parity of the number of abort(id) calls
AbortId(id) ==
  /\ Idle \/ cbFired
  /\ Commit(abort(Bundle, id))
  /\ probe' = [fn |-> "abort", id |-> id, known |-> id \in activeRequests,
               odd |-> IF probe.fn = "abort" THEN ~probe.odd ELSE TRUE]
  /\ UNCHANGED <<reqsLeft, now, isStreaming, fan, cur, cbFired, evLeft, faultsLeft>>

NextClient ==
  \/ Next
  \/ \E id \in 1..(MaxReqs + 1) : AbortId(id)

SpecClient == InitDeep /\ [][NextClient]_vars

\* ------------------------------------------- what the program does unasked
\* The steps that need nothing from the upstream or the user: the timer of a
\* backoff sleep fires, the events left in a buffer already handed to feed
\* are dispatched, the continuation of Promise.all runs, a pending fetch or
\* read rejects after an abort.  streamChatCompletion
\* sets no timer of its own: fetch gets { method, headers, body, signal } and
\* reader.read() is awaited as it is.
SleepEnds == \E r \in DOMAIN req : \E n \in BagToSet(req[r].sleeping) : Wake(r, n)

FeedRest ==
  \E r \in DOMAIN req : \E inst \in BagToSet(req[r].insts) :
    \E e \in Events : \E more \in BOOLEAN : cur = <<r>> /\ ReadEvent(r, inst, e, more)

FanoutContinues == \E f \in DOMAIN fan : FanoutResolve(f)

\* fetch and reader.read() reject once their signal is aborted
AbortRejects ==
  \E r \in DOMAIN req : \E inst \in BagToSet(req[r].insts) :
    req[r].aborted /\ (FetchReject(r, inst) \/ ReadReject(r, inst))

\* One call; every step of the program's own is taken when it can be, the
\* upstream answers when it likes or never.
SpecTimeout ==
  /\ InitDeep
  /\ [][Next]_vars
  /\ WF_vars(SleepEnds)
  /\ WF_vars(FeedRest)
  /\ WF_vars(FanoutContinues)
  /\ WF_vars(AbortRejects)

\* --------------------------------------- the circuit breaker on its own
\* CircuitBreaker is exported: recordFailure and recordSuccess called on the
\* client's breaker by other code, between stream() calls.
ExtRecordFailure(m) ==
  /\ Idle
  /\ failuresOf(cb, m) < MaxFailures
  /\ cb' = recordFailure(cb, m, now)
  /\ UNCHANGED <<probe, reqsLeft, now, req, activeRequests, responses, isStreaming,
                 activeRequestIds, fan, cur, cbFired, evLeft, faultsLeft>>

ExtRecordSuccess(m) ==
  /\ Idle
  /\ cb' = recordSuccess(cb, m)
  /\ UNCHANGED <<probe, reqsLeft, now, req, activeRequests, responses, isStreaming,
                 activeRequestIds, fan, cur, cbFired, evLeft, faultsLeft>>

NextBreaker ==
  \/ \E m \in Models : ExtRecordFailure(m)
  \/ \E m \in Models : ExtRecordSuccess(m)
  \/ \E sel \in Selections : StreamToModels(sel)
  \/ Abort
  \/ Tick

SpecBreaker == Init /\ [][NextBreaker]_vars

\* ----------------------------------------- the RetryPolicy on its own
\* RetryPolicy is exported and pure: one call of shouldRetry or getDelay on
\* inputs drawn from the shapes its callers and its tests pass.
ErrorShapes ==
  [isRetryable : {"true", "false", "unset"}, isNetworkError : BOOLEAN,
   status : {0, 400, 429, 500, 503}]

BaseDelays == {10 * RandomSteps, 20 * RandomSteps}

MaxDelays == {10 * RandomSteps, 30 * RandomSteps, 300 * RandomSteps}

RetryProbes ==
  [fn : {"shouldRetry"}, error : ErrorShapes,
   attemptNumber : 1..MaxAttemptNumber, done : {FALSE}, out : {FALSE}]
  \cup
  [fn : {"getDelay"}, baseDelayMs : BaseDelays, maxDelayMs : MaxDelays,
   attemptNumber : 1..MaxAttemptNumber, done : {FALSE}, out : {0}]

InitRetry ==
  /\ now = 1
  /\ cb = <<>>
  /\ req = <<>>
  /\ activeRequests = {}
  /\ responses = <<>>
  /\ isStreaming = FALSE
  /\ activeRequestIds = {}
  /\ fan = <<>>
  /\ cur = <<>>
  /\ cbFired = FALSE
  /\ evLeft = MaxEvents
  /\ faultsLeft = MaxFaults
  /\ probe \in RetryProbes
  /\ reqsLeft = MaxReqs

CallShouldRetry ==
  /\ probe.fn = "shouldRetry" /\ ~probe.done
  /\ probe' = [probe EXCEPT !.done = TRUE,
                            !.out = shouldRetry(probe.error, probe.attemptNumber)]
  /\ UNCHANGED <<now, cb, req, activeRequests, responses, isStreaming,
                 activeRequestIds, fan, cur, cbFired, evLeft, faultsLeft,
                 reqsLeft>>

CallGetDelay ==
  /\ probe.fn = "getDelay" /\ ~probe.done
  /\ \E rnd \in 0..(RandomSteps - 1) :
       probe' = [probe EXCEPT !.done = TRUE,
                              !.out = getDelay(probe.baseDelayMs, probe.maxDelayMs,
                                               probe.attemptNumber, rnd)]
  /\ UNCHANGED <<now, cb, req, activeRequests, responses, isStreaming,
                 activeRequestIds, fan, cur, cbFired, evLeft, faultsLeft,
                 reqsLeft>>

NextRetry ==
  \/ CallShouldRetry
  \/ CallGetDelay

SpecRetry == InitRetry /\ [][NextRetry]_vars

\* ------------------------------------------------------- the SSE parser
\* JavaScript values as parseSSEChunk meets them in a parsed payload.  For an
\* object s is its message property ("" when it has none) and empty says
\* whether it has no property at all.
Undefined == [t |-> "undefined", s |-> "", empty |-> FALSE]

JsNull == [t |-> "null", s |-> "", empty |-> FALSE]

Str(s) == [t |-> "string", s |-> s, empty |-> FALSE]

Num == [t |-> "number", s |-> "5", empty |-> FALSE]

Arr == [t |-> "array", s |-> "parts", empty |-> FALSE]

Obj(message, empty) == [t |-> "object", s |-> message, empty |-> empty]

\* ToBoolean
Truthy(v) ==
  \/ v.t \in {"object", "array", "number"}
  \/ v.t = "string" /\ v.s # ""

\* a || b
Or(a, b) == IF Truthy(a) THEN a ELSE b

\* v.message
MessageOf(v) == IF v.t = "object" /\ v.s # "" THEN Str(v.s) ELSE Undefined

\* The payloads the upstreams send, by the token that stands for their JSON
\* text between the braces.  top is what JSON.parse returns at the top level,
\* error is parsed.error, path says how far choices[0].delta exists and
\* content is the value at delta.content.
Shape(top, error, path, content) ==
  [top |-> top, error |-> error, path |-> path, content |-> content]

Shapes ==
  [k \in {"c=x", "c=", "c=5", "c=[]", "delta={}", "finish", "fcall",
          "choices=[]", "id", "null", "e=str", "e=msg", "e=obj", "e={}",
          "e={}+c=x", "e=''"} |->
     CASE k = "c=x" -> Shape("object", Undefined, "delta", Str("x"))
       [] k = "c=" -> Shape("object", Undefined, "delta", Str(""))
       [] k = "c=5" -> Shape("object", Undefined, "delta", Num)
       [] k = "c=[]" -> Shape("object", Undefined, "delta", Arr)
       [] k = "delta={}" -> Shape("object", Undefined, "delta", Undefined)
       [] k = "finish" -> Shape("object", Undefined, "delta", Undefined)
       [] k = "fcall" -> Shape("object", Undefined, "delta", Undefined)
       [] k = "choices=[]" -> Shape("object", Undefined, "emptychoices", Undefined)
       [] k = "id" -> Shape("object", Undefined, "nochoices", Undefined)
       [] k = "null" -> Shape("null", Undefined, "nochoices", Undefined)
       [] k = "e=str" -> Shape("object", Str("boom"), "nochoices", Undefined)
       [] k = "e=msg" -> Shape("object", Obj("boom", FALSE), "nochoices", Undefined)
       [] k = "e=obj" -> Shape("object", Obj("", FALSE), "nochoices", Undefined)
       [] k = "e={}" -> Shape("object", Obj("", TRUE), "nochoices", Undefined)
       [] k = "e={}+c=x" -> Shape("object", Obj("", TRUE), "delta", Str("x"))
       [] k = "e=''" -> Shape("object", Str(""), "delta", Str("x"))]

DoneText == <<"[DO", "NE]">>

\* JSON.parse succeeds on a complete text only
IsJSON(data) ==
  Len(data) = 3 /\ data[1] = "{" /\ data[3] = "}" /\ data[2] \in DOMAIN Shapes

JSONparse(data) == Shapes[data[2]]

\* parsed.choices?.[0]?.delta?.content
ContentAt(parsed) == IF parsed.path = "delta" THEN parsed.content ELSE Undefined

NoResult == [content |-> JsNull, done |-> FALSE, error |-> JsNull]

\* parseSSEChunk with the catch block reporting the parse failure
parseSSEChunk_CatchReports(data) ==
  IF data = DoneText THEN [NoResult EXCEPT !.done = TRUE]
  ELSE IF ~IsJSON(data) \/ JSONparse(data).top = "null"
  THEN [NoResult EXCEPT !.error = Str("Invalid JSON")]
  ELSE LET parsed == JSONparse(data)
       IN IF Truthy(parsed.error)
          THEN [NoResult EXCEPT !.error =
                  Or(Or(MessageOf(parsed.error), parsed.error), Str("Unknown error"))]
          ELSE IF Truthy(ContentAt(parsed))
          THEN [NoResult EXCEPT !.content = ContentAt(parsed)]
          ELSE NoResult

\* parseSSEChunk without the [DONE] test: the sentinel goes to JSON.parse
parseSSEChunk_NoSentinel(data) ==
  IF ~IsJSON(data) \/ JSONparse(data).top = "null" THEN NoResult
  ELSE LET parsed == JSONparse(data)
       IN IF Truthy(parsed.error)
          THEN [NoResult EXCEPT !.error =
                  Or(Or(MessageOf(parsed.error), parsed.error), Str("Unknown error"))]
          ELSE IF Truthy(ContentAt(parsed))
          THEN [NoResult EXCEPT !.content = ContentAt(parsed)]
          ELSE NoResult

\* JSON.parse throws on malformed text, and parsed.error throws on null:
\* both end in the catch block
parseSSEChunk(data) ==
  IF data = DoneText THEN [NoResult EXCEPT !.done = TRUE]
  ELSE IF ~IsJSON(data) \/ JSONparse(data).top = "null" THEN NoResult
  ELSE LET parsed == JSONparse(data)
       IN IF Truthy(parsed.error)
          THEN [NoResult EXCEPT !.error =
                  Or(Or(MessageOf(parsed.error), parsed.error), Str("Unknown error"))]
          ELSE IF Truthy(ContentAt(parsed))
          THEN [NoResult EXCEPT !.content = ContentAt(parsed)]
          ELSE NoResult

Call(name, arg) == [cb |-> name, arg |-> arg]

\* createSSEParser's onEvent: the callbacks one event makes, in order
onEvent(data) ==
  LET result == parseSSEChunk(data)
  IN IF Truthy(result.error) THEN <<Call("onError", result.error)>>
     ELSE IF result.done THEN <<Call("onDone", Undefined)>>
     ELSE IF Truthy(result.content) THEN <<Call("onChunk", result.content)>>
     ELSE <<>>

\* The framing done by createParser of eventsource-parser, after the framing
\* rules of the SSE framer: lines end at a newline, a blank line ends the
\* event, a line starting with ':' is a comment, data lines of one event are
\* joined by a newline, other fields are ignored.  line is the incomplete
\* line kept between two feed calls.
NewParser == [line |-> <<>>, data |-> <<>>, hasData |-> FALSE, out |-> <<>>]

ColonAt(line) ==
  IF \E i \in DOMAIN line : line[i] = ":"
  THEN CHOOSE i \in DOMAIN line : line[i] = ":" /\ \A j \in 1..(i - 1) : line[j] # ":"
  ELSE 0

parseLine(ps, line) ==
  IF line = <<>>
  THEN [ps EXCEPT !.data = <<>>, !.hasData = FALSE,
                  !.out = IF ps.hasData THEN @ \o onEvent(ps.data) ELSE @]
  ELSE LET c == ColonAt(line)
           field == IF c = 0 THEN line ELSE SubSeq(line, 1, c - 1)
           raw == IF c = 0 THEN <<>> ELSE SubSeq(line, c + 1, Len(line))
           value == IF raw # <<>> /\ raw[1] = "sp" THEN Tail(raw) ELSE raw
       IN IF field = <<"data">>
          THEN [ps EXCEPT !.hasData = TRUE,
                          !.data = IF ps.hasData THEN @ \o <<"LF">> \o value
                                   ELSE value]
          ELSE ps

RECURSIVE feedFrom(_, _, _)
feedFrom(ps, chunk, i) ==
  IF i > Len(chunk) THEN ps
  ELSE IF chunk[i] = "LF"
  THEN feedFrom(parseLine([ps EXCEPT !.line = <<>>], ps.line), chunk, i + 1)
  ELSE feedFrom([ps EXCEPT !.line = Append(@, chunk[i])], chunk, i + 1)

\* feed on a parser created anew for the chunk: what is buffered is lost
feed_FreshParser(ps, chunk) ==
  feedFrom([NewParser EXCEPT !.out = ps.out], chunk, 1)

\* createSSEParser(...).feed(chunk)
feed(ps, chunk) == feedFrom(ps, chunk, 1)

\* What an upstream puts on the wire: an event with a JSON payload, [DONE],
\* an event whose data is not JSON, and a keep-alive comment.
WireEvents ==
  {[kind |-> "json", shape |-> k] : k \in DOMAIN Shapes}
  \cup {[kind |-> "done", shape |-> ""], [kind |-> "malformed", shape |-> ""],
        [kind |-> "comment", shape |-> ""]}

EventBytes(e) ==
  CASE e.kind = "json" -> <<"data", ":", "sp", "{", e.shape, "}", "LF", "LF">>
    [] e.kind = "done" -> <<"data", ":", "sp">> \o DoneText \o <<"LF", "LF">>
    [] e.kind = "malformed" -> <<"data", ":", "sp", "{", "junk", "LF", "LF">>
    [] e.kind = "comment" -> <<":", "ka", "LF", "LF">>

RECURSIVE WireOf(_)
WireOf(evs) == IF evs = <<>> THEN <<>> ELSE EventBytes(Head(evs)) \o WireOf(Tail(evs))

\* the egress framing of the server: one data: event per content chunk, then
\* data: [DONE]
ChunkEvent(c) == [kind |-> "json", shape |-> IF c = "" THEN "c=" ELSE "c=" \o c]

Egress(chunks) ==
  [i \in 1..(Len(chunks) + 1) |->
     IF i <= Len(chunks) THEN ChunkEvent(chunks[i])
     ELSE [kind |-> "done", shape |-> ""]]

SeqsUpTo(S, n) == UNION {[1..k -> S] : k \in 1..n}

\* where a network buffer that ends after the k-th token of wire ends
CutAt(wire, k) ==
  IF k >= Len(wire) THEN "end"
  ELSE IF wire[k] = "LF" /\ wire[k + 1] = "LF" THEN "boundary"
  ELSE IF wire[k] = "LF" THEN "event"
  ELSE IF wire[k] \in {"{", "[DO", "junk"} \/ wire[k + 1] = "}" THEN "payload"
  ELSE "line"

\* One parser fed a stream in pieces.  evs is what was sent, rest what is
\* still to be fed, cuts where the buffers fed so far ended, ps the parser;
\* chunks is set when the stream is the egress framing of a chunk sequence.
SseProbes ==
  {[fn |-> "sse", evs |-> evs, chunks |-> <<>>, framed |-> FALSE,
    rest |-> WireOf(evs), cuts |-> {}, ps |-> NewParser] : evs \in SeqsUpTo(WireEvents, MaxWireEvents)}
  \cup
  {[fn |-> "sse", evs |-> Egress(cs), chunks |-> cs, framed |-> TRUE,
    rest |-> WireOf(Egress(cs)), cuts |-> {}, ps |-> NewParser] :
      cs \in SeqsUpTo(Chunks \cup {""}, MaxWireEvents)}

InitSse ==
  /\ now = 1
  /\ cb = <<>>
  /\ req = <<>>
  /\ activeRequests = {}
  /\ responses = <<>>
  /\ isStreaming = FALSE
  /\ activeRequestIds = {}
  /\ fan = <<>>
  /\ cur = <<>>
  /\ cbFired = FALSE
  /\ evLeft = MaxEvents
  /\ faultsLeft = MaxFaults
  /\ probe \in SseProbes
  /\ reqsLeft = MaxReqs

\* the read loop hands the next network buffer, of any length, to feed
Feed(k) ==
  /\ probe.fn = "sse"
  /\ k \in 1..Len(probe.rest)
  /\ probe' = [probe EXCEPT !.ps = feed(probe.ps, SubSeq(probe.rest, 1, k)),
                            !.cuts = @ \cup {CutAt(probe.rest, k)},
                            !.rest = SubSeq(probe.rest, k + 1, Len(probe.rest))]
  /\ UNCHANGED <<now, cb, req, activeRequests, responses, isStreaming,
                 activeRequestIds, fan, cur, cbFired, evLeft, faultsLeft,
                 reqsLeft>>

NextSse == \E k \in 1..(8 * MaxWireEvents) : Feed(k)

SpecSse == InitSse /\ [][NextSse]_vars

\* ------------------------------------------------------ TelemetryLogger
\* One TelemetryLogger: its endpoint (null or a URL), batchSize, queue, and
\* whether the flush interval is running.  Events are named by the order in
\* which they were logged.  posts are the request bodies handed to fetch,
\* with what became of each; dropped are the batches cleared without a
\* request; rejected says whether a flush() promise rejected.
NewLogger(endpoint, batchSize) ==
  [fn |-> "telemetry", endpoint |-> endpoint, batchSize |-> batchSize,
   queue |-> <<>>, interval |-> endpoint # "null", logged |-> 0,
   posts |-> <<>>, dropped |-> <<>>, rejected |-> FALSE]

\* flush up to its await: batch = this.queue.splice(0), then fetch is called
flush(tl) ==
  IF tl.queue = <<>> THEN tl
  ELSE LET batch == tl.queue
           tl1 == [tl EXCEPT !.queue = <<>>]
       IN IF tl.endpoint = "null"
          THEN [tl1 EXCEPT !.dropped = Append(@, batch)]
          ELSE [tl1 EXCEPT !.posts = Append(@, [events |-> batch, state |-> "pending"])]

\* log with a flush only once the queue is longer than batchSize
log_LateFlush(tl, type) ==
  LET tl1 == [tl EXCEPT !.queue = Append(@, [id |-> tl.logged + 1, type |-> type]),
                        !.logged = @ + 1]
  IN IF Len(tl1.queue) > tl1.batchSize THEN flush(tl1) ELSE tl1

\* log: push, then flush() (not awaited) when the queue has batchSize events
log(tl, type) ==
  LET tl1 == [tl EXCEPT !.queue = Append(@, [id |-> tl.logged + 1, type |-> type]),
                        !.logged = @ + 1]
  IN IF Len(tl1.queue) >= tl1.batchSize THEN flush(tl1) ELSE tl1

\* the rest of flush without the try/catch around the fetch
fetchRejected_Uncaught(tl, i) ==
  [tl EXCEPT !.posts[i].state = "failed", !.rejected = TRUE]

\* the rest of flush with a catch block that throws the error on
fetchRejected_Rethrows(tl, i) ==
  [tl EXCEPT !.posts[i].state = "failed", !.rejected = TRUE]

\* the rest of flush when fetch rejects: catch {}
fetchRejected(tl, i) == [tl EXCEPT !.posts[i].state = "failed"]

\* the rest of flush when fetch resolves
fetchResolved(tl, i) == [tl EXCEPT !.posts[i].state = "sent"]

EventTypes == {"streaming_error", "streaming_success"}

Endpoints == {"null", "url"}

InitTelemetry ==
  /\ now = 1
  /\ cb = <<>>
  /\ req = <<>>
  /\ activeRequests = {}
  /\ responses = <<>>
  /\ isStreaming = FALSE
  /\ activeRequestIds = {}
  /\ fan = <<>>
  /\ cur = <<>>
  /\ cbFired = FALSE
  /\ evLeft = MaxEvents
  /\ faultsLeft = MaxFaults
  /\ probe \in {NewLogger(e, b) : e \in Endpoints, b \in 1..MaxBatchSize}
  /\ reqsLeft = MaxReqs

TelemetryFrame ==
  UNCHANGED <<now, cb, req, activeRequests, responses, isStreaming,
              activeRequestIds, fan, cur, cbFired, evLeft, faultsLeft, reqsLeft>>

\* logError / logSuccess
Log(type) ==
  /\ probe.fn = "telemetry"
  /\ probe.logged < MaxLogged
  /\ probe' = log(probe, type)
  /\ TelemetryFrame

\* the setInterval callback
IntervalFlush ==
  /\ probe.fn = "telemetry"
  /\ probe.interval
  /\ probe' = flush(probe)
  /\ TelemetryFrame

\* destroy: clearInterval, then flush
Destroy ==
  /\ probe.fn = "telemetry"
  /\ probe' = flush([probe EXCEPT !.interval = FALSE])
  /\ TelemetryFrame

FetchResolves(i) ==
  /\ probe.fn = "telemetry"
  /\ i \in DOMAIN probe.posts
  /\ probe.posts[i].state = "pending"
  /\ probe' = fetchResolved(probe, i)
  /\ TelemetryFrame

FetchRejects(i) ==
  /\ probe.fn = "telemetry"
  /\ i \in DOMAIN probe.posts
  /\ probe.posts[i].state = "pending"
  /\ probe' = fetchRejected(probe, i)
  /\ TelemetryFrame

NextTelemetry ==
  \/ \E type \in EventTypes : Log(type)
  \/ IntervalFlush
  \/ Destroy
  \/ \E i \in 1..MaxLogged : FetchResolves(i)
  \/ \E i \in 1..MaxLogged : FetchRejects(i)

SpecTelemetry == InitTelemetry /\ [][NextTelemetry]_vars

\* ------------------------------------------------------ Spending ledger
\* The two counters daily and monthly, each with its amount and the time its
\* window ends.  Time is counted in days (day 0 starts a month, a month has
\* DaysPerMonth days), money in the smallest unit charged.  log is the list
\* of the record() calls made, with the day of each.
\* the next 00:00 UTC
NextMidnight(d) == d + 1

\* a monthly window that ends at every midnight
NextMonthStart_Midnight(d) == d + 1

\* the 1st of the next month, 00:00 UTC
NextMonthStart(d) == (d \div DaysPerMonth + 1) * DaysPerMonth

NewLedger ==
  [fn |-> "ledger", day |-> 0,
   daily |-> [amount |-> 0, resetAt |-> NextMidnight(0)],
   monthly |-> [amount |-> 0, resetAt |-> NextMonthStart(0)],
   log |-> <<>>, last |-> [op |-> "none", cost |-> 0, ok |-> FALSE]]

\* reset of the windows that have expired: amount zero, window advanced
applyResets(lg) ==
  [lg EXCEPT
     !.daily = IF lg.day >= @.resetAt
               THEN [amount |-> 0, resetAt |-> NextMidnight(lg.day)] ELSE @,
     !.monthly = IF lg.day >= @.resetAt
                 THEN [amount |-> 0, resetAt |-> NextMonthStart(lg.day)] ELSE @]

\* check_spending_cap with the comparisons turned to >=
checkCaps_Strict(daily, monthly, estimated_cost) ==
  IF daily + estimated_cost >= dailyCap THEN "DailyCapExceeded"
  ELSE IF monthly + estimated_cost >= monthlyCap THEN "MonthlyCapExceeded"
  ELSE "Ok"

\* check_spending_cap
checkCaps(daily, monthly, estimated_cost) ==
  IF daily + estimated_cost > dailyCap THEN "DailyCapExceeded"
  ELSE IF monthly + estimated_cost > monthlyCap THEN "MonthlyCapExceeded"
  ELSE "Ok"

\* check(estimated_cost): the expired-window reset first, then the caps
check(lg, cost) ==
  LET lg1 == applyResets(lg)
  IN [lg1 EXCEPT !.last =
        [op |-> "check", cost |-> cost,
         ok |-> checkCaps(lg1.daily.amount, lg1.monthly.amount, cost) = "Ok"]]

\* record(actual_cost), under the write lock: a record that arrives after
\* window_reset_at sets the amount to its own cost, any other adds to it
record(lg, cost) ==
  [lg EXCEPT
     !.daily = IF lg.day >= @.resetAt
               THEN [amount |-> cost, resetAt |-> NextMidnight(lg.day)]
               ELSE [@ EXCEPT !.amount = @ + cost],
     !.monthly = IF lg.day >= @.resetAt
                 THEN [amount |-> cost, resetAt |-> NextMonthStart(lg.day)]
                 ELSE [@ EXCEPT !.amount = @ + cost],
     !.log = Append(@, [cost |-> cost, day |-> lg.day]),
     !.last = [op |-> "record", cost |-> cost, ok |-> TRUE]]

Costs == 0..MaxCost

InitLedger ==
  /\ now = 1
  /\ cb = <<>>
  /\ req = <<>>
  /\ activeRequests = {}
  /\ responses = <<>>
  /\ isStreaming = FALSE
  /\ activeRequestIds = {}
  /\ fan = <<>>
  /\ cur = <<>>
  /\ cbFired = FALSE
  /\ evLeft = MaxEvents
  /\ faultsLeft = MaxFaults
  /\ probe = NewLedger
  /\ reqsLeft = MaxReqs

LedgerFrame ==
  UNCHANGED <<now, cb, req, activeRequests, responses, isStreaming,
              activeRequestIds, fan, cur, cbFired, evLeft, faultsLeft, reqsLeft>>

Check(cost) ==
  /\ probe.fn = "ledger"
  /\ probe' = check(probe, cost)
  /\ LedgerFrame

Record(cost) ==
  /\ probe.fn = "ledger"
  /\ Len(probe.log) < MaxRecords
  /\ probe' = record(probe, cost)
  /\ LedgerFrame

\* status(): the amounts of the current windows
Status ==
  /\ probe.fn = "ledger"
  /\ probe' = [applyResets(probe) EXCEPT !.last = [op |-> "status", cost |-> 0, ok |-> TRUE]]
  /\ LedgerFrame

\* the clock passes midnight UTC
Midnight ==
  /\ probe.fn = "ledger"
  /\ probe.day < MaxDay
  /\ probe' = [probe EXCEPT !.day = @ + 1,
                            !.last = [op |-> "midnight", cost |-> 0, ok |-> TRUE]]
  /\ LedgerFrame

NextLedger ==
  \/ \E cost \in Costs : Check(cost)
  \/ \E cost \in Costs : Record(cost)
  \/ Status
  \/ Midnight

SpecLedger == InitLedger /\ [][NextLedger]_vars

\* ------------------------------------------- streamChatCompletion timing
\* One streamChatCompletion call with its clock readings.  clock is
\* performance.now(), which never goes back; NoTime stands for null.
\* firstChunkAt keeps the clock reading at the first content event, result
\* what was passed to onComplete.
NoTime == 0 - 1

NewTiming(start) ==
  [fn |-> "timing", clock |-> start, startTime |-> start, ttftMs |-> NoTime,
   hasContent |-> FALSE, completed |-> FALSE, firstChunkAt |-> NoTime,
   result |-> [ttftMs |-> NoTime, responseTimeMs |-> NoTime]]

\* the test written as if (!ttftMs): a reading of 0 counts as not yet taken
firstChunkTime_Falsy(tm) ==
  IF tm.ttftMs = NoTime \/ tm.ttftMs = 0 THEN tm.clock - tm.startTime ELSE tm.ttftMs

\* if (ttftMs === null) ttftMs = performance.now() - startTime
firstChunkTime(tm) ==
  IF tm.ttftMs = NoTime THEN tm.clock - tm.startTime ELSE tm.ttftMs

\* { responseTimeMs, ttftMs: ttftMs ?? responseTimeMs }
timingResult(tm) ==
  LET responseTimeMs == tm.clock - tm.startTime
  IN [responseTimeMs |-> responseTimeMs,
      ttftMs |-> IF tm.ttftMs = NoTime THEN responseTimeMs ELSE tm.ttftMs]

InitTiming ==
  /\ now = 1
  /\ cb = <<>>
  /\ req = <<>>
  /\ activeRequests = {}
  /\ responses = <<>>
  /\ isStreaming = FALSE
  /\ activeRequestIds = {}
  /\ fan = <<>>
  /\ cur = <<>>
  /\ cbFired = FALSE
  /\ evLeft = MaxEvents
  /\ faultsLeft = MaxFaults
  /\ probe \in {NewTiming(start) : start \in 0..1}
  /\ reqsLeft = MaxReqs

TimingFrame ==
  UNCHANGED <<now, cb, req, activeRequests, responses, isStreaming,
              activeRequestIds, fan, cur, cbFired, evLeft, faultsLeft, reqsLeft>>

\* time passes while the call awaits fetch or reader.read()
TimePasses ==
  /\ probe.fn = "timing"
  /\ probe.result.responseTimeMs = NoTime
  /\ probe.clock < MaxClock
  /\ probe' = [probe EXCEPT !.clock = @ + 1]
  /\ TimingFrame

\* the parser's onChunk
ChunkArrives ==
  /\ probe.fn = "timing"
  /\ probe.result.responseTimeMs = NoTime
  /\ probe' = [probe EXCEPT !.ttftMs = firstChunkTime(probe),
                            !.hasContent = TRUE,
                            !.firstChunkAt = IF @ = NoTime THEN probe.clock ELSE @]
  /\ TimingFrame

\* the parser's onDone
DoneArrives ==
  /\ probe.fn = "timing"
  /\ ~probe.completed
  /\ probe' = [probe EXCEPT !.completed = TRUE, !.result = timingResult(probe)]
  /\ TimingFrame

\* the body ends without [DONE]
BodyEnds ==
  /\ probe.fn = "timing"
  /\ ~probe.completed /\ probe.hasContent
  /\ probe' = [probe EXCEPT !.completed = TRUE, !.result = timingResult(probe)]
  /\ TimingFrame

NextTiming ==
  \/ TimePasses
  \/ ChunkArrives
  \/ DoneArrives
  \/ BodyEnds

SpecTiming == InitTiming /\ [][NextTiming]_vars

\* ------------------------------------- the client with its TelemetryLogger
\* Two StreamingClients are given the same call, the same upstream behaviour
\* and the same abort, step by step: quiet has telemetry disabled (endpoint
\* null), wired posts its events, and its posts succeed or fail.  A side is
\* the client's state s and its logger tl.
NewSide(endpoint, batchSize) ==
  [s |-> [req |-> <<>>, cb |-> <<>>, responses |-> <<>>,
          activeRequests |-> {}, activeRequestIds |-> {}],
   tl |-> NewLogger(endpoint, batchSize)]

\* an error of the logger that reaches the code that called it
telemetryInterrupts(tl) == tl.rejected

RECURSIVE SumOver(_, _)
SumOver(rs, field) ==
  IF rs = <<>> THEN 0 ELSE Head(rs)[field] + SumOver(Tail(rs), field)

\* the logError / logSuccess calls made on the way from s to s2
logCalls(tl, s, s2) ==
  LET tl1 == IF SumOver(s2.req, "nLogError") > SumOver(s.req, "nLogError")
             THEN log(tl, "streaming_error") ELSE tl
  IN IF SumOver(s2.req, "nLogSuccess") > SumOver(s.req, "nLogSuccess")
     THEN log(tl1, "streaming_success") ELSE tl1

PairModel == "a"

\* what the upstream, the timer or the user does next
PairInputs(s) ==
  IF s.req = <<>> THEN {[op |-> "stream"]}
  ELSE {[op |-> "abort"]}
       \cup {[op |-> "wake", n |-> n] : n \in BagToSet(s.req[1].sleeping)}
       \cup {[op |-> o, inst |-> inst] :
               o \in {"respond", "fault", "close"}, inst \in BagToSet(s.req[1].insts)}
       \cup {[op |-> "event", inst |-> inst, e |-> e] :
               inst \in BagToSet(s.req[1].insts), e \in Events}

InputEnabled(s, in) ==
  CASE in.op = "stream" -> TRUE
    [] in.op = "abort" -> TRUE
    [] in.op = "wake" -> TRUE
    [] in.op = "respond" -> in.inst.pc = "fetch" /\ ~s.req[1].aborted
    [] in.op = "fault" -> TRUE
    [] in.op = "close" -> in.inst.pc = "read" /\ ~s.req[1].aborted
    [] in.op = "event" -> in.inst.pc = "read" /\ ~s.req[1].aborted

\* the client's reaction to an input, as in the actions of Next
clientStep(s, in, t) ==
  CASE in.op = "stream" ->
         stream([s EXCEPT !.responses = InitialResponses(<<PairModel>>)], PairModel, t)
    [] in.op = "abort" -> [abortAll(s) EXCEPT !.activeRequestIds = {}]
    [] in.op = "wake" ->
         LET s1 == [s EXCEPT !.req[1].sleeping = @ (-) One(in.n)]
         IN IF retriesAfterSleep(s1, 1) THEN startAttempt(s1, 1, in.n + 1)
            ELSE Resolve(s1, 1)
    [] in.op = "respond" -> SetInst(s, 1, in.inst, [in.inst EXCEPT !.pc = "read"])
    [] in.op = "fault" ->
         catchError(s, 1, in.inst,
                    IF s.req[1].aborted THEN "aborted" ELSE "network", t)
    [] in.op = "close" ->
         LET s1 == DropInst(s, 1, in.inst)
         IN IF closeCompletes(in.inst)
            THEN wrapOnComplete(s1, 1, in.inst.fullContent) ELSE s1
    [] in.op = "event" -> feedEvent(s, 1, in.inst, in.inst, in.e, t)

\* a side takes the input unless an error of its logger has interrupted it
sideStep(side, in, t) ==
  IF telemetryInterrupts(side.tl) THEN side
  ELSE LET s2 == clientStep(side.s, in, t)
       IN [s |-> s2, tl |-> logCalls(side.tl, side.s, s2)]

InitPair ==
  /\ now = 1
  /\ cb = <<>>
  /\ req = <<>>
  /\ activeRequests = {}
  /\ responses = <<>>
  /\ isStreaming = FALSE
  /\ activeRequestIds = {}
  /\ fan = <<>>
  /\ cur = <<>>
  /\ cbFired = FALSE
  /\ evLeft = MaxEvents
  /\ faultsLeft = MaxFaults
  /\ probe \in {[fn |-> "pair", quiet |-> NewSide("null", b),
                 wired |-> NewSide("url", b), inputs |-> 0] :
                   b \in 1..MaxBatchSize}
  /\ reqsLeft = MaxReqs

PairFrame ==
  UNCHANGED <<now, cb, req, activeRequests, responses, isStreaming,
              activeRequestIds, fan, cur, cbFired, evLeft, faultsLeft, reqsLeft>>

\* both clients are given the same input
PairInput(in) ==
  /\ probe.fn = "pair"
  /\ probe.inputs < MaxInputs
  /\ in \in PairInputs(probe.quiet.s)
  /\ InputEnabled(probe.quiet.s, in)
  /\ probe' = [probe EXCEPT !.quiet = sideStep(@, in, now),
                            !.wired = sideStep(@, in, now),
                            !.inputs = @ + 1]
  /\ PairFrame

PairAnyInput == \E in \in PairInputs(probe.quiet.s) : PairInput(in)

\* the flush interval of the wired logger fires
PairIntervalFlush ==
  /\ probe.fn = "pair"
  /\ probe' = [probe EXCEPT !.wired.tl = flush(@)]
  /\ PairFrame

\* a post of the wired logger succeeds
PairFetchResolves(i) ==
  /\ probe.fn = "pair"
  /\ i \in DOMAIN probe.wired.tl.posts
  /\ probe.wired.tl.posts[i].state = "pending"
  /\ probe' = [probe EXCEPT !.wired.tl = fetchResolved(@, i)]
  /\ PairFrame

\* a post of the wired logger fails
PairFetchRejects(i) ==
  /\ probe.fn = "pair"
  /\ i \in DOMAIN probe.wired.tl.posts
  /\ probe.wired.tl.posts[i].state = "pending"
  /\ probe' = [probe EXCEPT !.wired.tl = fetchRejected(@, i)]
  /\ PairFrame

NextPair ==
  \/ PairAnyInput
  \/ PairIntervalFlush
  \/ \E i \in 1..MaxInputs : PairFetchResolves(i)
  \/ \E i \in 1..MaxInputs : PairFetchRejects(i)

SpecPair == InitPair /\ [][NextPair]_vars

\* ------------------------------------------------- the comparison panes
\* the provider ids of the /v1/models/grouped listing, in listing order, and
\* those whose provider has an API key
Listing == <<"a", "b", "c", "d">>
ConfiguredIds == {"a", "b", "c"}
maxPanes == 3
NoPane == 0

\* the listing narrowed to the ids that pass test, in listing order
RECURSIVE FilterSeq(_, _)
FilterSeq(seq, keep) ==
  IF seq = <<>> THEN <<>>
  ELSE (IF Head(seq) \in keep THEN <<Head(seq)>> ELSE <<>>)
         \o FilterSeq(Tail(seq), keep)

\* what the persist effect of an earlier session left in localStorage: a
\* selection of that session, whose providers may since have lost their key
SavedSelections ==
  {<<>>} \cup
  {sel \in UNION {[1..n -> Range(Listing)] : n \in 1..maxPanes} :
     \A i, j \in DOMAIN sel : i # j => sel[i] # sel[j]}

autoSelectModels(saved) ==
  LET validModels == FilterSeq(saved, ConfiguredIds)
      flat == FilterSeq(Listing, ConfiguredIds)
  IN IF validModels # <<>> THEN validModels
     ELSE IF Len(flat) >= 2 THEN SubSeq(flat, 1, 2)
     ELSE flat

NewPanes(saved) ==
  [fn |-> "panes",
   selectedModelsForComparison |-> autoSelectModels(saved),
   dropdownOpen |-> NoPane,
   selectedModelIds |-> {},
   refused |-> FALSE,
   isStreaming |-> FALSE,
   children |-> <<>>]

handlePaneModelChange(s, paneIndex, newModel) ==
  [s EXCEPT !.selectedModelsForComparison[paneIndex] = newModel]

handleAddPane(s) ==
  LET current == s.selectedModelsForComparison
      free == FilterSeq(Listing, ConfiguredIds \ Range(current))
  IN IF Len(current) >= maxPanes \/ free = <<>> THEN s
     ELSE [s EXCEPT !.selectedModelsForComparison = Append(current, free[1])]

handleRemovePane(s, paneIndex) ==
  LET current == s.selectedModelsForComparison
  IN IF Len(current) <= 1 THEN s
     ELSE [s EXCEPT !.selectedModelsForComparison =
             SubSeq(current, 1, paneIndex - 1)
               \o SubSeq(current, paneIndex + 1, Len(current))]

\* a click on the dropdown item of provider id, in the pane whose dropdown is
\* open: handleModelSelect, unless the item is another pane's model
clickItem_AnyPane(s, id) ==
  IF id \notin ConfiguredIds THEN s
  ELSE [handlePaneModelChange(s, s.dropdownOpen, id)
          EXCEPT !.dropdownOpen = NoPane]

clickItem(s, id) ==
  LET isSelected == s.selectedModelsForComparison[s.dropdownOpen] = id
      isInOtherPane == ~isSelected /\ id \in s.selectedModelIds
  IN IF isInOtherPane THEN [s EXCEPT !.refused = TRUE]
     ELSE IF id \notin ConfiguredIds THEN s
     ELSE [handlePaneModelChange(s, s.dropdownOpen, id)
             EXCEPT !.dropdownOpen = NoPane]

\* sendMessage up to streamToModels: one child stream per entry of the
\* selection, each writing the record of its model id
sendMessage(s) ==
  IF s.isStreaming \/ Len(s.selectedModelsForComparison) < 1 THEN s
  ELSE [s EXCEPT !.isStreaming = TRUE,
                 !.children = s.selectedModelsForComparison]

InitPanes ==
  /\ now = 1
  /\ cb = <<>>
  /\ req = <<>>
  /\ activeRequests = {}
  /\ responses = <<>>
  /\ isStreaming = FALSE
  /\ activeRequestIds = {}
  /\ fan = <<>>
  /\ cur = <<>>
  /\ cbFired = FALSE
  /\ evLeft = MaxEvents
  /\ faultsLeft = MaxFaults
  /\ probe \in {NewPanes(saved) : saved \in SavedSelections}
  /\ reqsLeft = MaxReqs

PanesFrame ==
  UNCHANGED <<now, cb, req, activeRequests, responses, isStreaming,
              activeRequestIds, fan, cur, cbFired, evLeft, faultsLeft, reqsLeft>>

\* the pane's header button opens its dropdown; the items are built from the
\* selection of that moment, and the backdrop covers the rest of the page
OpenDropdown(paneIndex) ==
  /\ probe.fn = "panes"
  /\ probe.dropdownOpen = NoPane
  /\ paneIndex \in DOMAIN probe.selectedModelsForComparison
  /\ probe' = [probe EXCEPT !.dropdownOpen = paneIndex,
                            !.selectedModelIds =
                               Range(probe.selectedModelsForComparison)]
  /\ PanesFrame

CloseDropdown ==
  /\ probe.fn = "panes"
  /\ probe.dropdownOpen # NoPane
  /\ probe' = [probe EXCEPT !.dropdownOpen = NoPane]
  /\ PanesFrame

ClickItem(id) ==
  /\ probe.fn = "panes"
  /\ probe.dropdownOpen # NoPane
  /\ probe' = clickItem(probe, id)
  /\ PanesFrame

AddPane ==
  /\ probe.fn = "panes"
  /\ probe.dropdownOpen = NoPane
  /\ probe' = handleAddPane(probe)
  /\ PanesFrame

RemovePane(paneIndex) ==
  /\ probe.fn = "panes"
  /\ probe.dropdownOpen = NoPane
  /\ paneIndex \in DOMAIN probe.selectedModelsForComparison
  /\ probe' = handleRemovePane(probe, paneIndex)
  /\ PanesFrame

Send ==
  /\ probe.fn = "panes"
  /\ probe.dropdownOpen = NoPane
  /\ probe' = sendMessage(probe)
  /\ PanesFrame

\* every child stream of the send has ended
SendEnds ==
  /\ probe.fn = "panes"
  /\ probe.isStreaming
  /\ probe' = [probe EXCEPT !.isStreaming = FALSE]
  /\ PanesFrame

NextPanes ==
  \/ \E paneIndex \in 1..maxPanes : OpenDropdown(paneIndex)
  \/ CloseDropdown
  \/ \E id \in Range(Listing) : ClickItem(id)
  \/ AddPane
  \/ \E paneIndex \in 1..maxPanes : RemovePane(paneIndex)
  \/ Send
  \/ SendEnds

SpecPanes == InitPanes /\ [][NextPanes]_vars

\* ================================================================ claims
\* no streamChatCompletion call of the request is running and no retry sleep
\* is pending: no callback of the call can fire any more
CallOver(r) == BagToSet(req[r].insts) = {} /\ BagToSet(req[r].sleeping) = {}

Terminals(r) == req[r].nComplete + req[r].nError

\* C1: a stream() call that passed the circuit gate fires the caller's
\* terminal callbacks exactly once over the whole call: onComplete or onError,
\* never both, never twice, and not zero times once the call is over.
C1_ExactlyOneTerminal ==
  \A r \in DOMAIN req : ~req[r].rejected =>
    /\ Terminals(r) <= 1
    /\ CallOver(r) => Terminals(r) = 1

\* the circuit of model m has opened (openedAt recorded, no success since)
\* and no more than resetTimeMs has passed since
OpenNow(m) ==
  openedAtOf(cb, m) # Null /\ now - openedAtOf(cb, m) <= resetTimeMs

\* C2: a stream() call for a model is rejected at once with a
\* CircuitOpenError via onError, without any attempt, exactly when the circuit
\* of the model is open and no more than reset_ms has passed since opened_at;
\* in every other case the call is attempted.
C2_OpenCircuitRejects ==
  [][\A sel \in Selections : StreamToModels(sel) =>
       \A k \in DOMAIN sel :
         LET q == req'[Len(req) + k]
         IN IF OpenNow(sel[k])
            THEN /\ q.rejected /\ q.attempts = 0 /\ q.nError = 1
                 /\ q.lastError.kind = "CircuitOpenError"
                 /\ Len(req) + k \notin activeRequests'
            ELSE /\ ~q.rejected /\ q.attempts = 1 /\ q.nError = 0
                 /\ Len(req) + k \in activeRequests']_vars

\* a call was rejected with CircuitOpenError while the circuit was open, and
\* a later call for the same model was attempted once more than resetTimeMs
\* had passed since openedAt (the circuit still holds its failures)
C2_Witness ==
  \E r1, r2 \in DOMAIN req :
    /\ req[r1].rejected /\ req[r1].lastError.kind = "CircuitOpenError"
    /\ ~req[r2].rejected /\ req[r2].model = req[r1].model
    /\ r1 < r2
    /\ openedAtOf(cb, req[r1].model) # Null
    /\ now - openedAtOf(cb, req[r1].model) > resetTimeMs

\* C3: every failed attempt whose error is an HTTP 429 or a 5xx is recorded
\* as one failure in the circuit breaker of its model, retried or not.
C3_FailureRecorded ==
  [][\A r \in DOMAIN req : \A inst \in BagToSet(req[r].insts) :
       \A status \in {429, 500} :
         FetchStatus(r, inst, status) =>
           failuresOf(cb', req[r].model) = failuresOf(cb, req[r].model) + 1]_vars

\* C4: in the half-open state recordFailure returns the circuit to open with
\* openedAt refreshed to the current time.
C4_HalfOpenFailureReopens ==
  [][\A m \in Models :
       ExtRecordFailure(m) /\ getState(cb, m, now) = "half-open" =>
         /\ openedAtOf(cb', m) = now
         /\ isOpen(cb', m, now')]_vars

\* C5: neither onChunk nor onComplete of a stream() call fires after the
\* abort signal of the call is set.
C5_NoCallbackAfterAbort == \A r \in DOMAIN req : ~req[r].late

\* C6: an aborted stream() call ends with the caller's onError invoked with
\* an AbortError, and returns.
C6_AbortReported ==
  \A r \in DOMAIN req : req[r].aborted /\ CallOver(r) =>
    /\ req[r].returned
    /\ req[r].nError = 1
    /\ req[r].lastError.kind = "AbortError"

\* C7: streamToModels terminates: once all its child streams are over (also
\* after abort()) every child has settled, so the call resolves, and no record
\* of its models is loading.
C7_FanoutTerminates ==
  fan # <<>> =>
    LET rids == fan[Len(fan)].rids
    IN (\A k \in DOMAIN rids : CallOver(rids[k])) =>
         \A k \in DOMAIN rids :
           /\ req[rids[k]].settled # "pending"
           /\ ~responses[req[rids[k]].model].loading

\* C8: a resolved fanout has one settled result per selected model, in
\* selection order; at its resolution the record of each completed model has
\* loading = false and the content of its result, the record of each failed
\* model loading = false and the error message of its result.
C8_PartialFailure ==
  \A f \in DOMAIN fan : fan[f].resolved /\ fan[f].latest =>
    \A k \in DOMAIN fan[f].rids :
      LET q == req[fan[f].rids[k]]
          rec == fan[f].snap[q.model]
      IN /\ q.settled # "pending"
         /\ ~rec.loading
         /\ q.settled = "ok" => rec.content = q.resContent
         /\ q.settled = "err" => rec.error = q.resError

\* C9: a stream() call makes at most max_attempts attempts, each one after
\* the first preceded by one backoff sleep; a call whose attempts all failed
\* ends after max_attempts attempts and max_attempts - 1 sleeps with onError
\* called once.
C9_BoundedAttempts ==
  \A r \in DOMAIN req :
    /\ req[r].attempts <= maxAttempts
    /\ req[r].sleeps <= maxAttempts - 1
    /\ req[r].attempts <= req[r].sleeps + 1
    /\ (CallOver(r) /\ req[r].attempts = maxAttempts /\ req[r].nComplete = 0
        /\ ~req[r].aborted) => req[r].nError = 1

\* C10: a non-2xx response other than 429 with a 4xx status is never retried:
\* its error goes to onError after that single attempt; a 429 becomes a
\* RateLimitError, any other status an UpstreamError.
C10_ClassifiedByStatus ==
  [][\A r \in DOMAIN req : \A inst \in BagToSet(req[r].insts) :
       \A status \in Statuses :
         FetchStatus(r, inst, status) =>
           IF status = 429
           THEN req'[r].nError = req[r].nError =>
                  req'[r].sleeps = req[r].sleeps + 1
           ELSE IF status >= 500
           THEN TRUE
           ELSE /\ req'[r].sleeps = req[r].sleeps
                /\ req'[r].nError = req[r].nError + 1
                /\ req'[r].lastError.kind = "UpstreamError"]_vars

\* the decision the reference gives for an error and an attempt number
RefShouldRetry(error, attemptNumber) ==
  /\ attemptNumber < maxAttempts
  /\ \/ error.isRetryable = "true"
     \/ /\ error.isRetryable \notin {"true", "false"}
        /\ (error.isNetworkError \/ error.status = 429 \/ error.status >= 500)

\* C11: shouldRetry(error, attempt) equals the reference decision: false when
\* attempt >= max_attempts; otherwise the explicit boolean flag of the error
\* when it has one; otherwise true iff the error is a network error, has
\* status 429 or has status >= 500.
C11_ShouldRetryReference ==
  (probe.fn = "shouldRetry" /\ probe.done) =>
    (probe.out <=> RefShouldRetry(probe.error, probe.attemptNumber))

\* shouldRetry answered true for a 5xx error without flag before the limit
C11_Witness ==
  /\ probe.fn = "shouldRetry" /\ probe.done /\ probe.out
  /\ probe.attemptNumber < maxAttempts
  /\ probe.error.isRetryable = "unset" /\ ~probe.error.isNetworkError
  /\ probe.error.status = 503

\* C12 as stated: getDelay(k) lies in
\* [0.7 * base * 2^(k-1), min(1.3 * base * 2^(k-1), max_delay)].
C12_DelayInStatedBounds ==
  (probe.fn = "getDelay" /\ probe.done) =>
    LET exponential == probe.baseDelayMs * Pow2(probe.attemptNumber - 1)
    IN /\ 10 * probe.out >= 7 * exponential
       /\ 10 * probe.out <= Min(13 * exponential, 10 * probe.maxDelayMs)

\* C12: getDelay(k) lies in [min(0.7 * base * 2^(k-1), max_delay),
\* min(1.3 * base * 2^(k-1), max_delay)] for every jitter value: the cap
\* applies to the lower end of the range as well.
C12_DelayInCappedBounds ==
  (probe.fn = "getDelay" /\ probe.done) =>
    LET exponential == probe.baseDelayMs * Pow2(probe.attemptNumber - 1)
    IN /\ 10 * probe.out >= Min(7 * exponential, 10 * probe.maxDelayMs)
       /\ 10 * probe.out <= Min(13 * exponential, 10 * probe.maxDelayMs)

\* getDelay returned the cap where even the smallest jittered delay exceeds
\* it
C12_Witness ==
  /\ probe.fn = "getDelay" /\ probe.done
  /\ 7 * probe.baseDelayMs * Pow2(probe.attemptNumber - 1) > 10 * probe.maxDelayMs
  /\ probe.out = probe.maxDelayMs

\* C13: once [DONE] has been processed on a response and onComplete has
\* fired, a later event on the same response produces no onChunk and no
\* onError: nothing reaches the caller and no retry is started.
C13_NothingAfterDone ==
  [][\A r \in DOMAIN req : \A inst \in BagToSet(req[r].insts) :
       \A e \in Events : \A more \in BOOLEAN :
         (inst.completed /\ ReadEvent(r, inst, e, more)) =>
           /\ req'[r].delivered = req[r].delivered
           /\ req'[r].nError = req[r].nError
           /\ req'[r].sleeps = req[r].sleeps]_vars

\* C14: an abort never changes circuit-breaker state: no step of a stream()
\* call whose abort signal is set records a failure or a success, so the
\* breaker is the same after the call ends as when the abort was issued.
C14_AbortLeavesBreaker ==
  [][\A r \in DOMAIN req :
       (req[r].aborted /\ req'[r] # req[r]) => cb' = cb]_vars

\* C15: for every model with stored circuit state, openedAt is non-null if
\* and only if the failure count is at least the failure threshold.
C15_OpenedIffThreshold ==
  \A m \in DOMAIN cb :
    (cb[m].openedAt # Null) <=> (cb[m].failures >= failureThreshold)

\* one model at or over the threshold and one with failures below it
C15_Witness ==
  \E m1, m2 \in DOMAIN cb :
    /\ cb[m1].failures > failureThreshold /\ cb[m1].openedAt # Null
    /\ cb[m2].failures > 0 /\ cb[m2].failures < failureThreshold
    /\ cb[m2].openedAt = Null

\* C16: resetTime(model) is opened_at + reset_ms exactly when the circuit of
\* the model is open, and null in every other state: unknown model, closed,
\* half-open.
C16_ResetTimeOnlyWhenOpen ==
  \A m \in Models :
    resetTime(cb, m) =
      IF getState(cb, m, now) = "open" THEN openedAtOf(cb, m) + resetTimeMs
      ELSE Null

\* C17: recordSuccess(model) from any state leaves no stored state for the
\* model: getState is closed, the failure count restarts from zero, and a
\* second recordSuccess leaves the breaker as the first left it.
C17_SuccessForgetsModel ==
  [][\A m \in Models : ExtRecordSuccess(m) =>
       /\ ~Has(cb', m)
       /\ getState(cb', m, now') = "closed"
       /\ ~isOpen(cb', m, now')
       /\ failuresOf(recordFailure(cb', m, now'), m) = 1
       /\ recordSuccess(cb', m) = cb']_vars

\* a model whose open circuit rejected a call has no stored state any more
C17_Witness ==
  \E r \in DOMAIN req :
    /\ req[r].rejected /\ req[r].lastError.kind = "CircuitOpenError"
    /\ ~Has(cb, req[r].model)

\* C18: circuit state is per model: recordFailure(m) and recordSuccess(m)
\* leave the failure count and openedAt of every other model unchanged, and
\* isOpen, getState and resetTime of every other model answer as before.
C18_ModelsIsolated ==
  [][\A m \in Models : (ExtRecordFailure(m) \/ ExtRecordSuccess(m)) =>
       \A m2 \in Models \ {m} :
         /\ Has(cb', m2) = Has(cb, m2)
         /\ failuresOf(cb', m2) = failuresOf(cb, m2)
         /\ openedAtOf(cb', m2) = openedAtOf(cb, m2)
         /\ isOpen(cb', m2, now') = isOpen(cb, m2, now)
         /\ getState(cb', m2, now') = getState(cb, m2, now)
         /\ resetTime(cb', m2) = resetTime(cb, m2)]_vars

\* two models with different stored state, one of them open
C18_Witness ==
  \E m1, m2 \in DOMAIN cb :
    /\ m1 # m2
    /\ isOpen(cb, m1, now)
    /\ cb[m2].failures = 1 /\ ~isOpen(cb, m2, now)

\* C19: whenever a stream() call ends with onComplete, whatever failures
\* came before, the circuit state of its model is absent afterwards and
\* exactly one streaming_success event has been logged for the call.
C19_SuccessClearsAndLogsOnce ==
  [][\A r \in DOMAIN req :
       req'[r].nComplete > req[r].nComplete =>
         /\ ~Has(cb', req[r].model)
         /\ req'[r].nLogSuccess = 1]_vars

\* upstream HTTP requests of the children rs[1..k] that are open: a running
\* streamChatCompletion call has its fetch pending or its response being read
RECURSIVE OpenRequests(_, _)
OpenRequests(rs, k) ==
  IF k = 0 THEN 0
  ELSE BagCardinality(req[rs[k]].insts) + OpenRequests(rs, k - 1)

\* C20: for every streamToModels call over N models, in every state the
\* number of open upstream HTTP requests of the call equals the number of its
\* children that are not yet terminal, and is at most N, retries included.
\* Stated here is the bound, which the equality implies as well: never more
\* than N requests of one call are open at a time.
C20_OpenRequestsBounded ==
  \A f \in DOMAIN fan :
    OpenRequests(fan[f].rids, Len(fan[f].rids)) <= Len(fan[f].rids)

\* C21: the content passed to onComplete, and accumulated in the record of
\* the model, is the in-order concatenation of exactly the chunks passed to
\* the caller's onChunk for that call.  (Within one response the parser hands
\* the events on in wire order; delivered keeps the order of the calls.)
C21_ContentIsDeliveredChunks ==
  [][\A r \in DOMAIN req :
       (req[r].settled = "pending" /\ req'[r].nComplete > req[r].nComplete) =>
         /\ req'[r].resContent = req'[r].delivered
         /\ responses'[req[r].model].content = req'[r].delivered]_vars

\* the data of an event as the framer hands it to onEvent
DataOf(e) ==
  CASE e.kind = "json" -> <<"{", e.shape, "}">>
    [] e.kind = "done" -> DoneText
    [] e.kind = "malformed" -> <<"{", "junk">>
    [] e.kind = "comment" -> <<>>

\* the callbacks of a stream taken one event at a time
RECURSIVE EventCalls(_)
EventCalls(evs) ==
  IF evs = <<>> THEN <<>>
  ELSE (IF Head(evs).kind = "comment" THEN <<>> ELSE onEvent(DataOf(Head(evs))))
       \o EventCalls(Tail(evs))

SseFed == probe.fn = "sse" /\ probe.rest = <<>>

\* C22: however the bytes of a valid SSE stream are split into feed() calls,
\* the parser makes the same onChunk/onDone/onError calls as when the whole
\* stream is fed at once, and each event of the stream is emitted once, in
\* order.
C22_SplitInvariant ==
  SseFed =>
    /\ probe.ps.out = feed(NewParser, WireOf(probe.evs)).out
    /\ probe.ps.out = EventCalls(probe.evs)

\* a two-event stream was cut inside a payload and between the two newlines
\* of an event boundary, and both events were emitted
C22_Witness ==
  /\ SseFed
  /\ {"payload", "boundary"} \subseteq probe.cuts
  /\ Len(probe.ps.out) = 2


ChunkCalls(chunks) == [i \in DOMAIN chunks |-> Call("onChunk", Str(chunks[i]))]

NonEmpty(c) == c # ""

SseRoundTrip == SseFed /\ probe.framed

\* C23: for every sequence of content chunks, the egress framing of the
\* chunks followed by [DONE], fed to the parser, gives onChunk calls with
\* exactly the original chunk sequence and then one onDone.
C23_RoundTrip ==
  SseRoundTrip =>
    probe.ps.out = ChunkCalls(probe.chunks) \o <<Call("onDone", Undefined)>>

\* C23 as the code has it: the onChunk calls carry the original sequence
\* without its empty chunks, and one onDone follows.
C23_RoundTripNonEmpty ==
  SseRoundTrip =>
    probe.ps.out = ChunkCalls(SelectSeq(probe.chunks, NonEmpty))
                     \o <<Call("onDone", Undefined)>>

\* an empty chunk and a chunk "x" went through egress and parser
C23_Witness ==
  /\ SseRoundTrip
  /\ probe.chunks = <<"", "x">>
  /\ Len(probe.ps.out) = 2

WellFormed(e) == e.kind # "malformed"

HasMalformedThenValid ==
  \E i, j \in DOMAIN probe.evs :
    /\ i < j
    /\ probe.evs[i].kind = "malformed"
    /\ probe.evs[j].kind \in {"json", "done"}

\* C24: an event whose data is not valid JSON triggers no callback and the
\* events after it are emitted as if it were not in the stream: the calls
\* made for a stream are those made for the stream without its malformed
\* events.
C24_MalformedDropped ==
  SseFed =>
    probe.ps.out = feed(NewParser, WireOf(SelectSeq(probe.evs, WellFormed))).out

\* a malformed event came first and the content event after it was emitted
C24_Witness ==
  /\ SseFed
  /\ HasMalformedThenValid
  /\ probe.ps.out = <<Call("onChunk", Str("x"))>>

\* The reference rule of the framer for one event.
RefNonEmptyError(v) ==
  \/ v.t = "string" /\ v.s # ""
  \/ v.t = "object" /\ ~v.empty

RefCalls(e) ==
  CASE e.kind = "done" -> <<Call("onDone", Undefined)>>
    [] e.kind = "json" ->
         LET parsed == Shapes[e.shape]
         IN IF parsed.top = "object" /\ RefNonEmptyError(parsed.error)
            THEN <<Call("onError",
                        IF parsed.error.t = "object" /\ parsed.error.s # ""
                        THEN Str(parsed.error.s) ELSE parsed.error)>>
            ELSE IF /\ parsed.top = "object"
                    /\ parsed.path = "delta"
                    /\ parsed.content.t = "string"
                    /\ parsed.content.s # ""
            THEN <<Call("onChunk", parsed.content)>>
            ELSE <<>>
    [] OTHER -> <<>>

RECURSIVE RefStreamCalls(_)
RefStreamCalls(evs) ==
  IF evs = <<>> THEN <<>> ELSE RefCalls(Head(evs)) \o RefStreamCalls(Tail(evs))

\* C25: each event yields at most one callback, chosen by the reference
\* rule: [DONE] gives onDone; a non-empty error gives onError with its
\* message (or the error itself); otherwise a non-empty string at
\* choices[0].delta.content gives onChunk; every other shape gives nothing.
C25_ReferenceRule ==
  SseFed => probe.ps.out = RefStreamCalls(probe.evs)


\* the step in which the response body of attempt inst of call r ends: the
\* attempt is over and nothing failed
CloseStep(r, inst) ==
  /\ inst.pc = "read"
  /\ req'[r].insts = req[r].insts (-) One(inst)
  /\ req'[r].nError = req[r].nError
  /\ req'[r].sleeping = req[r].sleeping

\* the step completes attempt inst: it had not completed before, and after
\* the step it has completed or is over
CompletesAttempt(r, inst) ==
  /\ ~inst.completed
  /\ \/ req'[r].insts = req[r].insts (-) One(inst)
     \/ \E pc \in {"read", "feed"} :
          req'[r].insts = (req[r].insts (-) One(inst))
                            (+) One([inst EXCEPT !.completed = TRUE, !.pc = pc])

\* C26: when the response body ends without [DONE] after content was
\* accumulated, onComplete fires with the buffered content; and every
\* onComplete call completes an attempt that had not completed before, so
\* that no attempt fires onComplete twice, whatever number of [DONE] events
\* its response holds and whether or not the body also ends.
C26_CloseCompletesOnce ==
  [][\A r \in DOMAIN req :
       /\ \A inst \in BagToSet(req[r].insts) :
            (CloseStep(r, inst) /\ ~inst.completed /\ inst.fullContent # <<>>) =>
              /\ req'[r].nComplete = req[r].nComplete + 1
              /\ req[r].settled = "pending" => req'[r].resContent = inst.fullContent
       /\ req'[r].nComplete > req[r].nComplete =>
            /\ req'[r].nComplete = req[r].nComplete + 1
            /\ \E inst \in BagToSet(req[r].insts) : CompletesAttempt(r, inst)]_vars

\* the one attempt of a call was sent a content event and [DONE] twice, its
\* body ended, and onComplete was called once
C26_Witness ==
  \E r \in DOMAIN req :
    /\ evLeft = 0
    /\ req[r].attempts = 1
    /\ req[r].insts = EmptyBag
    /\ req[r].nError = 0 /\ req[r].sleeps = 0 /\ ~req[r].aborted
    /\ req[r].delivered = <<"x">>
    /\ req[r].nComplete = 1


\* C27: an upstream call that never answers, or stops sending, does not hang
\* the attempt forever: a timeout fails it, so every stream() call that was
\* started gets to the point where none of its attempts is running or
\* sleeping.
C27_NoAttemptHangs ==
  \A r \in 1..MaxReqs : (r \in DOMAIN req) ~> (r \in DOMAIN req /\ CallOver(r))


IsLogger == probe.fn = "telemetry"

\* C28: the telemetry queue is bounded by the batch size: a log() call that
\* brings the queue to batchSize events flushes all of them before it
\* returns, so the queue always holds fewer than batchSize events, for a
\* null endpoint as for a URL.
C28_QueueBelowBatchSize ==
  IsLogger => Len(probe.queue) < probe.batchSize

\* a logger with batchSize 2 posted a full batch on its second log() and
\* has taken a third event since
C28_Witness ==
  /\ IsLogger
  /\ probe.batchSize = 2
  /\ Len(probe.posts) = 1
  /\ Len(probe.posts[1].events) = 2
  /\ Len(probe.queue) = 1

\* the events of all batches taken from the queue, in the order taken
RECURSIVE Flatten(_)
Flatten(batches) ==
  IF batches = <<>> THEN <<>> ELSE Head(batches) \o Flatten(Tail(batches))

PostedBatches == [i \in DOMAIN probe.posts |-> probe.posts[i].events]

Increasing(events) ==
  \A i, j \in DOMAIN events : i < j => events[i].id < events[j].id

\* C29: flush() never rejects; with a null endpoint the queued events are
\* dropped and nothing is posted; a failed post is absorbed; the events of
\* a flush are out of the queue, every event is posted in at most one
\* batch, and a batch keeps the order in which its events were logged.
C29_FlushAbsorbsFailures ==
  IsLogger =>
    /\ ~probe.rejected
    /\ probe.endpoint = "null" => probe.posts = <<>>
    /\ Increasing(Flatten(PostedBatches) \o probe.queue)
    /\ Increasing(Flatten(probe.dropped) \o probe.queue)

\* one batch was posted and the post failed, a later one is on its way
C29_Witness ==
  /\ IsLogger
  /\ Len(probe.posts) = 2
  /\ probe.posts[1].state = "failed"
  /\ Len(probe.posts[1].events) = 2
  /\ probe.queue # <<>>


\* C30: telemetry mirrors the attempt outcomes: a circuit-open rejection
\* logs one streaming_error and nothing else; otherwise a call logs at most
\* one streaming_success, and its attempts log one event each at most (one
\* streaming_error for a failed attempt, the streaming_success for the one
\* that completed), so the events of a call never outnumber its attempts.
C30_TelemetryMirrorsAttempts ==
  \A r \in DOMAIN req :
    /\ req[r].rejected => req[r].nLogError = 1 /\ req[r].nLogSuccess = 0
    /\ ~req[r].rejected =>
         /\ req[r].nLogSuccess <= 1
         /\ req[r].nLogError + req[r].nLogSuccess <= req[r].attempts


IsLedger == probe.fn = "ledger"

\* the costs recorded from day d on
RECURSIVE SumSince(_, _)
SumSince(entries, d) ==
  IF entries = <<>> THEN 0
  ELSE (IF Head(entries).day >= d THEN Head(entries).cost ELSE 0)
       + SumSince(Tail(entries), d)

SpentToday == SumSince(probe.log, probe.day)

SpentThisMonth == SumSince(probe.log, (probe.day \div DaysPerMonth) * DaysPerMonth)

\* the amount of a counter in the window the clock is in
CurrentAmount(counter) == IF probe.day >= counter.resetAt THEN 0 ELSE counter.amount

\* C31: check(cost) returns ok iff what was recorded in the current day plus
\* the cost is within the daily cap and what was recorded in the current
\* month plus the cost is within the monthly cap; a rejected check leaves
\* both amounts as they were.
C31_CheckAdmitsWithinCaps ==
  (IsLedger /\ probe.last.op = "check") =>
    /\ probe.last.ok <=>
         /\ SpentToday + probe.last.cost <= dailyCap
         /\ SpentThisMonth + probe.last.cost <= monthlyCap
    /\ ~probe.last.ok =>
         /\ CurrentAmount(probe.daily) = SpentToday
         /\ CurrentAmount(probe.monthly) = SpentThisMonth

\* a check was rejected on the monthly cap alone, in a new day of a month
\* in which the cap was reached
C31_Witness ==
  /\ IsLedger
  /\ probe.last.op = "check" /\ ~probe.last.ok
  /\ probe.day = 1
  /\ SpentToday + probe.last.cost <= dailyCap
  /\ SpentThisMonth = monthlyCap - 1
  /\ probe.last.cost = 2

\* C32: for every interleaving of record() calls, checks and window resets
\* the daily and the monthly amount are the sum of the costs recorded since
\* the current window began, and within a window an amount never decreases.
C32_AmountIsWindowSum ==
  /\ [](IsLedger =>
          /\ CurrentAmount(probe.daily) = SpentToday
          /\ CurrentAmount(probe.monthly) = SpentThisMonth)
  /\ [][(IsLedger /\ probe'.day = probe.day) =>
          /\ probe'.daily.amount >= CurrentAmount(probe.daily)
          /\ probe'.monthly.amount >= CurrentAmount(probe.monthly)]_vars

\* a record arrived after the daily window had ended and inside the month:
\* the daily amount is its cost, the monthly amount the sum of two days
C32_Witness ==
  /\ IsLedger
  /\ probe.last.op = "record"
  /\ probe.day = 1
  /\ probe.daily.amount = 1
  /\ probe.monthly.amount = 3


\* C33: at most one upstream attempt of a stream() call is in flight at any
\* time: a retry starts only after the attempt before it has stopped.
C33_OneAttemptInFlight ==
  \A r \in DOMAIN req : BagCardinality(req[r].insts) <= 1


C35_RejectionHasNoEffect ==
  /\ [](\A r \in DOMAIN req : req[r].rejected =>
          /\ req[r].attempts = 0
          /\ req[r].insts = EmptyBag /\ req[r].sleeping = EmptyBag
          /\ r \notin activeRequests
          /\ req[r].delivered = <<>> /\ req[r].nComplete = 0)
  /\ [][(\E r \in DOMAIN req' : r \notin DOMAIN req /\ req'[r].rejected) =>
          cb' = cb]_vars

\* a call was rejected at the gate of an open circuit
C35_Witness ==
  \E r \in DOMAIN req :
    /\ req[r].rejected
    /\ req[r].nError = 1
    /\ OpenNow(req[r].model)


\* the stream() calls that passed the circuit gate and have neither returned
\* nor been aborted
LiveCalls ==
  {r \in DOMAIN req : ~req[r].rejected /\ ~req[r].returned /\ ~req[r].aborted}

\* C36: the active-request set holds exactly the calls that passed the
\* circuit gate and have neither returned nor been aborted (so the id of a
\* call that returned is absent); abort(id) for an id that is not in the set
\* changes nothing; abortAll() leaves the set empty.
C36_ActiveSetIsLiveCalls ==
  /\ [](activeRequests = LiveCalls)
  /\ [][(probe' # probe /\ ~probe'.known) =>
          UNCHANGED <<req, activeRequests, cb, responses, activeRequestIds>>]_vars
  /\ [][(probe' = probe /\ \E r \in DOMAIN req : ~req[r].aborted /\ req'[r].aborted) =>
          activeRequests' = {}]_vars

\* abort(id) was called for the id of a call that had already returned with
\* an error, and the set is empty
C36_Witness ==
  /\ probe.fn = "abort"
  /\ ~probe.known
  /\ probe.id \in DOMAIN req
  /\ req[probe.id].returned /\ ~req[probe.id].aborted
  /\ req[probe.id].nError = 1
  /\ activeRequests = {}


TimingReported == probe.fn = "timing" /\ probe.result.responseTimeMs # NoTime

\* C37: for every completed upstream call 0 <= ttftMs <= responseTimeMs;
\* ttftMs is the time of the first content event, whatever came later, and
\* it is the total time when the call completed without content.
C37_TtftWithinTotal ==
  TimingReported =>
    /\ 0 <= probe.result.ttftMs
    /\ probe.result.ttftMs <= probe.result.responseTimeMs
    /\ probe.firstChunkAt # NoTime =>
         probe.result.ttftMs = probe.firstChunkAt - probe.startTime
    /\ probe.firstChunkAt = NoTime =>
         probe.result.ttftMs = probe.result.responseTimeMs

\* the first content event came in the tick the call started, the call
\* completed later, and ttftMs is 0
C37_Witness ==
  /\ TimingReported
  /\ probe.firstChunkAt = probe.startTime
  /\ probe.result.ttftMs = 0
  /\ probe.result.responseTimeMs = 2


IsPair == probe.fn = "pair"

IsPanes == probe.fn = "panes"

C40_FlagCoversInFlight ==
  ~isStreaming =>
    \A f \in DOMAIN fan : \A k \in DOMAIN fan[f].rids : CallOver(fan[f].rids[k])


====
